---- MODULE Spec2Model ----
(***************************************************************************)
(* Clarity (flabwick/brain6): the stream position ledger                   *)
(* (backend/src/models/StreamCard.js, CardFactory) and the in-memory       *)
(* background job queue (backend/src/services/simpleJobQueue.js).          *)
(***************************************************************************)
EXTENDS Integers, Sequences, FiniteSets, TLC

(***************************************************************************)
(* Bounds and input domains                                                *)
(***************************************************************************)
\* Largest explicit position a request passes to insert / move.
MaxPos == 1

\* Jobs enqueued in one run of the queue, and the priorities they carry.
MaxJobs == 2
MaxPriority == 1

\* processNextJob invocations that can be in flight together.
MaxLoops == 2

\* Faults and outside calls in one run of the queue: timeouts that fire,
\* stopProcessing calls, INSERTs of addJob that fail.
MaxTimeouts == 1
MaxStops == 1
MaxSaveFailures == 1

\* JavaScript null for an omitted position / depth argument.
Null == -1000

\* Cards of the brain; all of them exist; "X" has is_active = false.
Cards == {"A", "B", "C", "D", "X"}
ActiveCards == {"A", "B", "C", "D"}

\* Positions and depths a request may carry (nothing validates them on the
\* way to the model, so out-of-range values are among them).
InsertArgs == (0 .. MaxPos) \cup {Null}
MoveArgs == -1 .. MaxPos + 1
DepthArgs == {Null, 0}

VARIABLES
  rows,   \* stream_cards rows of the one stream: records [card, position, depth]
  last,   \* the last ledger call: operation, arguments, result, rows before it
  rt,     \* rows before an insert that the last call (a remove) has undone
  scn     \* progress through the scenario Insert(D,1); Remove(B); Move(C,0)

ledgerVars == <<rows, last, rt, scn>>

VARIABLES
  jobs,             \* job objects by id: status, retryCount, priority, inMap
  pendingJobs,      \* this.pendingJobs
  isProcessing,     \* this.isProcessing
  processingJobId,  \* this.processingJobId (NoJob for null)
  loops,            \* processNextJob invocations in flight: the await each is at
  nextTimers,       \* armed setTimeout(processNextJob, 100) callbacks
  retryTimers,      \* armed setTimeout(insertJobByPriority, retryDelay), per job
  errs,             \* handleJobError calls of timeout callbacks at their await, per job
  adds,             \* addJob calls awaiting the INSERT of their row
  execs,            \* history: how often executeJob was called, per job
  used              \* history: timeouts fired, stopProcessing calls, failed INSERTs

queueVars == <<jobs, pendingJobs, isProcessing, processingJobId, loops,
               nextTimers, retryTimers, errs, adds, execs, used>>

VARIABLES
  db,   \* committed stream_cards rows of the stream two requests work on
  tx    \* the transaction of each request: call, await it is at, row versions

txVars == <<db, tx>>

VARIABLES
  table,  \* stream_cards rows of a stream under repair, in order of added_at
  repair  \* the last call on it: operation, rows before it, cards updated

repairVars == <<table, repair>>

VARIABLES
  mem,     \* this.jobs seen by cleanupOldJobs: status, completedAt, handler running
  pj,      \* processing_jobs rows by job id: status, completed_at
  clock,   \* the current date, in days
  dbFails, \* history: UPDATEs of updateJobInDatabase that threw
  purge    \* the last cleanupOldJobs call: daysOld, cutoff, map and table before it

cleanupVars == <<mem, pj, clock, dbFails, purge>>

VARIABLES
  cardRows,     \* cards rows of the one brain, by card id
  bodyFiles,    \* markdown files under <brain folder>/cards, by file name
  storageUsed,  \* brains.storage_used of the brain
  streamCards,  \* stream_cards rows of the brain's one stream
  made,         \* cards INSERTed so far (ids are never reused)
  faults,       \* history: queries that failed in the middle of Card.create
  calls,        \* history: lifecycle calls made so far
  lc            \* the last lifecycle call: operation and result

lifecycleVars == <<cardRows, bodyFiles, storageUsed, streamCards, made, faults,
                  calls, lc>>

VARIABLES
  flagRows, \* stream_cards rows with their flags: card, position, depth, is_in_ai_context, is_collapsed
  tg \* the last two calls on the flags: operation, card, result, rows before each

flagsVars == <<flagRows, tg>>

VARIABLES
  cardsTable, \* committed cards rows of the brain two requests create cards in
  creators, \* the Card.create transaction of each request: title, await it is at, its row
  inserted \* history: INSERTs into cards executed so far

raceVars == <<cardsTable, creators, inserted>>

VARIABLES
  mjob, \* the job object of one job in this.jobs: inMap, status, retryCount
  mrow, \* the job's processing_jobs row: present, status, retry_count
  mwrites, \* INSERTs and UPDATEs of the queue the pool has not executed yet
  mctl \* where the calls on the job stand: awaits, timers, pending list, isProcessing

mirrorVars == <<mjob, mrow, mwrites, mctl>>

vars == <<ledgerVars, queueVars, txVars, repairVars, cleanupVars, lifecycleVars, flagsVars, raceVars, mirrorVars>>

\* What a ledger call, a step of the queue, a query of a concurrent request
\* and a call on the stream under repair leave alone.
notLedger == <<queueVars, txVars, repairVars, cleanupVars, lifecycleVars, flagsVars, raceVars, mirrorVars>>
notQueue == <<ledgerVars, txVars, repairVars, cleanupVars, lifecycleVars, flagsVars, raceVars, mirrorVars>>
notTx == <<ledgerVars, queueVars, repairVars, cleanupVars, lifecycleVars, flagsVars, raceVars, mirrorVars>>
notRepair == <<ledgerVars, queueVars, txVars, cleanupVars, lifecycleVars, flagsVars, raceVars, mirrorVars>>
notCleanup == <<ledgerVars, queueVars, txVars, repairVars, lifecycleVars, flagsVars, raceVars, mirrorVars>>
notLifecycle == <<ledgerVars, queueVars, txVars, repairVars, cleanupVars, flagsVars, raceVars, mirrorVars>>
notFlags == <<ledgerVars, queueVars, txVars, repairVars, cleanupVars, lifecycleVars, raceVars, mirrorVars>>
notRace == <<ledgerVars, queueVars, txVars, repairVars, cleanupVars, lifecycleVars, flagsVars, mirrorVars>>
notMirror == <<ledgerVars, queueVars, txVars, repairVars, cleanupVars, lifecycleVars, flagsVars, raceVars>>

(***************************************************************************)
(* SQL statements of StreamCard.js on the rows of one stream               *)
(***************************************************************************)
\* SELECT ... FROM stream_cards WHERE stream_id = $1 AND card_id = $2
RowsOf(rs, c) == {r \in rs : r.card = c}

\* SELECT COALESCE(MAX(position), dflt) FROM stream_cards WHERE stream_id = $1
MaxPosition(rs, dflt) ==
  IF rs = {} THEN dflt
  ELSE CHOOSE m \in {r.position : r \in rs} : \A r \in rs : r.position <= m

\* UPDATE stream_cards SET position = position + d
\*   WHERE stream_id = $1 AND lo <= position AND position <= hi
ShiftRange(rs, lo, hi, d) ==
  {IF lo <= r.position /\ r.position <= hi
     THEN [r EXCEPT !.position = @ + d] ELSE r : r \in rs}

\* Upper end of an unbounded WHERE position >= $2 / position > $2.
Top(rs) == MaxPosition(rs, 0)

\* Faulty variant of AddCardToStream: the shift misses the row at the position.
AddCardToStreamShiftAbove(rs, c, position, depth) ==
  IF c \notin ActiveCards
    THEN [rows |-> rs, position |-> position, res |-> "Card not found or inactive"]
  ELSE IF RowsOf(rs, c) # {}
    THEN [rows |-> rs, position |-> position, res |-> "Card already exists in this stream"]
  ELSE
    LET p == IF position = Null THEN MaxPosition(rs, -1) + 1 ELSE position
    IN [rows |-> ShiftRange(rs, p + 1, Top(rs), 1)
                   \cup {[card |-> c, position |-> p, depth |-> depth]},
        position |-> p,
        res |-> "ok"]

\* StreamCard.addCardToStream: the new rows, the position used, the outcome.
AddCardToStream(rs, c, position, depth) ==
  IF c \notin ActiveCards
    THEN [rows |-> rs, position |-> position, res |-> "Card not found or inactive"]
  ELSE IF RowsOf(rs, c) # {}
    THEN [rows |-> rs, position |-> position, res |-> "Card already exists in this stream"]
  ELSE
    LET p == IF position = Null THEN MaxPosition(rs, -1) + 1 ELSE position
    IN [rows |-> ShiftRange(rs, p, Top(rs), 1)
                   \cup {[card |-> c, position |-> p, depth |-> depth]},
        position |-> p,
        res |-> "ok"]

\* Faulty variant of RemoveCardFromStream: the gap is not closed.
RemoveCardFromStreamNoShift(rs, c) ==
  IF RowsOf(rs, c) = {}
    THEN [rows |-> rs, ret |-> FALSE]
  ELSE [rows |-> rs \ RowsOf(rs, c), ret |-> TRUE]

\* StreamCard.removeCardFromStream: the new rows and the returned boolean.
RemoveCardFromStream(rs, c) ==
  IF RowsOf(rs, c) = {}
    THEN [rows |-> rs, ret |-> FALSE]
  ELSE
    LET removedPosition == (CHOOSE r \in RowsOf(rs, c) : TRUE).position
        kept == rs \ RowsOf(rs, c)
    IN [rows |-> ShiftRange(kept, removedPosition + 1, Top(kept), -1), ret |-> TRUE]

\* Faulty variant of ReorderCard: moving down leaves the row at the target
\* position in place (position < new instead of <= new).
ReorderCardShiftFromCurrent(rs, c, newPosition, newDepth) ==
  IF RowsOf(rs, c) = {}
    THEN [rows |-> rs, res |-> "Card not found in stream"]
  ELSE
    LET cur == CHOOSE r \in RowsOf(rs, c) : TRUE
        currentPosition == cur.position
        currentDepth == cur.depth
        maxPosition == MaxPosition(rs, 0)
        shifted ==
          IF currentPosition = newPosition THEN rs
          ELSE IF newPosition > currentPosition
            THEN ShiftRange(rs, currentPosition + 1, newPosition - 1, -1)
            ELSE ShiftRange(rs, newPosition, currentPosition - 1, 1)
    IN IF currentPosition = newPosition
            /\ (newDepth = Null \/ currentDepth = newDepth)
         THEN [rows |-> rs, res |-> "false"]
       ELSE IF newPosition < 0 \/ newPosition > maxPosition
         THEN [rows |-> rs, res |-> "Invalid position"]
       ELSE
         [rows |-> {IF r.card = c
                      THEN [r EXCEPT !.position = newPosition,
                                     !.depth = IF newDepth = Null THEN @ ELSE newDepth]
                      ELSE r : r \in shifted},
          res |-> "true"]

\* Faulty variant of ReorderCard: the new position is not validated.
ReorderCardUnvalidated(rs, c, newPosition, newDepth) ==
  IF RowsOf(rs, c) = {}
    THEN [rows |-> rs, res |-> "Card not found in stream"]
  ELSE
    LET cur == CHOOSE r \in RowsOf(rs, c) : TRUE
        currentPosition == cur.position
        currentDepth == cur.depth
        maxPosition == MaxPosition(rs, 0)
        shifted ==
          IF currentPosition = newPosition THEN rs
          ELSE IF newPosition > currentPosition
            THEN ShiftRange(rs, currentPosition + 1, newPosition, -1)
            ELSE ShiftRange(rs, newPosition, currentPosition - 1, 1)
    IN IF currentPosition = newPosition
            /\ (newDepth = Null \/ currentDepth = newDepth)
         THEN [rows |-> rs, res |-> "false"]
       ELSE IF FALSE
         THEN [rows |-> rs, res |-> "Invalid position"]
       ELSE
         [rows |-> {IF r.card = c
                      THEN [r EXCEPT !.position = newPosition,
                                     !.depth = IF newDepth = Null THEN @ ELSE newDepth]
                      ELSE r : r \in shifted},
          res |-> "true"]

\* Faulty variant of ReorderCard: a depth equal to the current one counts as a
\* change.
ReorderCardNoDepthCompare(rs, c, newPosition, newDepth) ==
  IF RowsOf(rs, c) = {}
    THEN [rows |-> rs, res |-> "Card not found in stream"]
  ELSE
    LET cur == CHOOSE r \in RowsOf(rs, c) : TRUE
        currentPosition == cur.position
        currentDepth == cur.depth
        maxPosition == MaxPosition(rs, 0)
        shifted ==
          IF currentPosition = newPosition THEN rs
          ELSE IF newPosition > currentPosition
            THEN ShiftRange(rs, currentPosition + 1, newPosition, -1)
            ELSE ShiftRange(rs, newPosition, currentPosition - 1, 1)
    IN IF currentPosition = newPosition
            /\ newDepth = Null
         THEN [rows |-> rs, res |-> "false"]
       ELSE IF newPosition < 0 \/ newPosition > maxPosition
         THEN [rows |-> rs, res |-> "Invalid position"]
       ELSE
         [rows |-> {IF r.card = c
                      THEN [r EXCEPT !.position = newPosition,
                                     !.depth = IF newDepth = Null THEN @ ELSE newDepth]
                      ELSE r : r \in shifted},
          res |-> "true"]

\* StreamCard.reorderCard: the new rows and "true" / "false" / the error thrown.
ReorderCard(rs, c, newPosition, newDepth) ==
  IF RowsOf(rs, c) = {}
    THEN [rows |-> rs, res |-> "Card not found in stream"]
  ELSE
    LET cur == CHOOSE r \in RowsOf(rs, c) : TRUE
        currentPosition == cur.position
        currentDepth == cur.depth
        maxPosition == MaxPosition(rs, 0)
        shifted ==
          IF currentPosition = newPosition THEN rs
          ELSE IF newPosition > currentPosition
            THEN ShiftRange(rs, currentPosition + 1, newPosition, -1)
            ELSE ShiftRange(rs, newPosition, currentPosition - 1, 1)
    IN IF currentPosition = newPosition
            /\ (newDepth = Null \/ currentDepth = newDepth)
         THEN [rows |-> rs, res |-> "false"]
       ELSE IF newPosition < 0 \/ newPosition > maxPosition
         THEN [rows |-> rs, res |-> "Invalid position"]
       ELSE
         [rows |-> {IF r.card = c
                      THEN [r EXCEPT !.position = newPosition,
                                     !.depth = IF newDepth = Null THEN @ ELSE newDepth]
                      ELSE r : r \in shifted},
          res |-> "true"]

\* CardFactory.addCardToStream (part_007, 298-358): the new rows, the position
\* used, and "returned" when it returns early without inserting.  It checks
\* neither the stream nor the card, and shifts only when a row is at the
\* position.
FactoryAddCardToStream(rs, c, position) ==
  LET p == IF position = Null THEN MaxPosition(rs, -1) + 1 ELSE position
  IN IF RowsOf(rs, c) # {}
       THEN [rows |-> rs, position |-> p, res |-> "returned"]
     ELSE
       [rows |-> (IF \E r \in rs : r.position = p
                    THEN ShiftRange(rs, p, Top(rs), 1) ELSE rs)
                   \cup {[card |-> c, position |-> p, depth |-> 0]},
        position |-> p,
        res |-> "ok"]

\* The renumbering loop of CardFactory.addCardToStreamSafely (part_007,
\* 252-277): the rows in order of position get 0, 1, 2, ... with the insertion
\* position left out.  (No two rows of a stream built by one request at a time
\* share a position, so the order is the rows' rank.)
Renumbered(rs, position) ==
  {LET k == Cardinality({x \in rs : x.position < r.position})
   IN [r EXCEPT !.position = IF position >= 0 /\ position <= k THEN k + 1 ELSE k] :
   r \in rs}

\* CardFactory.addCardToStreamSafely (part_007, 232-289).
AddCardToStreamSafely(rs, c, position) ==
  IF RowsOf(rs, c) # {}
    THEN [rows |-> rs, position |-> position, res |-> "returned"]
  ELSE IF position = Null
    THEN LET p == MaxPosition(rs, -1) + 1
         IN [rows |-> rs \cup {[card |-> c, position |-> p, depth |-> 0]},
             position |-> p, res |-> "ok"]
  ELSE [rows |-> Renumbered(rs, position)
                   \cup {[card |-> c, position |-> position, depth |-> 0]},
        position |-> position, res |-> "ok"]

(***************************************************************************)
(* The ledger used by one request at a time                                *)
(***************************************************************************)
NoRows == {}

\* The scenario's streams.
Stream(a, b, c, d) ==
  {[card |-> x[1], position |-> x[2], depth |-> 0] :
     x \in {y \in {<<"A", a>>, <<"B", b>>, <<"C", c>>, <<"D", d>>} : y[2] # Null}}

S0 == Stream(0, 1, 2, Null)

ScnNext(op, c, p, pre) ==
  IF op = "insert" /\ c = "D" /\ p = 1 /\ pre = S0 THEN 1
  ELSE IF scn = 1 /\ op = "remove" /\ c = "B" THEN 2
  ELSE IF scn = 2 /\ op = "move" /\ c = "C" /\ p = 0 THEN 3
  ELSE 0

NoCall == [op |-> "none", card |-> "A", arg |-> Null, depth |-> Null,
           pos |-> Null, res |-> "none", pre |-> NoRows]

LedgerInit ==
  /\ rows = NoRows
  /\ last = NoCall
  /\ rt = <<>>
  /\ scn = 0

Insert(c, p) ==
  LET r == AddCardToStream(rows, c, p, 0) IN
  /\ rows' = r.rows
  /\ last' = [op |-> "insert", card |-> c, arg |-> p, depth |-> 0,
              pos |-> r.position, res |-> r.res, pre |-> rows]
  /\ rt' = <<>>
  /\ scn' = ScnNext("insert", c, p, rows)
  /\ UNCHANGED notLedger

Remove(c) ==
  LET r == RemoveCardFromStream(rows, c) IN
  /\ rows' = r.rows
  /\ last' = [op |-> "remove", card |-> c, arg |-> Null, depth |-> Null,
              pos |-> Null, res |-> IF r.ret THEN "true" ELSE "false", pre |-> rows]
  /\ rt' = IF last.op = "insert" /\ last.res = "ok" /\ last.card = c
             THEN <<last.pre>> ELSE <<>>
  /\ scn' = ScnNext("remove", c, Null, rows)
  /\ UNCHANGED notLedger

Move(c, p, d) ==
  LET r == ReorderCard(rows, c, p, d) IN
  /\ rows' = r.rows
  /\ last' = [op |-> "move", card |-> c, arg |-> p, depth |-> d,
              pos |-> Null, res |-> r.res, pre |-> rows]
  /\ rt' = <<>>
  /\ scn' = ScnNext("move", c, p, rows)
  /\ UNCHANGED notLedger

LedgerNext ==
  \/ \E c \in Cards, p \in InsertArgs : Insert(c, p)
  \/ \E c \in Cards : Remove(c)
  \/ \E c \in Cards, p \in MoveArgs, d \in DepthArgs : Move(c, p, d)

\* CardFactory.addCardToStream called by one request.
FactoryInsert(c, p) ==
  LET r == FactoryAddCardToStream(rows, c, p) IN
  /\ rows' = r.rows
  /\ last' = [op |-> "factoryInsert", card |-> c, arg |-> p, depth |-> 0,
              pos |-> r.position, res |-> r.res, pre |-> rows]
  /\ rt' = <<>>
  /\ scn' = 0
  /\ UNCHANGED notLedger

\* CardFactory.addCardToStreamSafely called by one request.
SafeInsert(c, p) ==
  LET r == AddCardToStreamSafely(rows, c, p) IN
  /\ rows' = r.rows
  /\ last' = [op |-> "safeInsert", card |-> c, arg |-> p, depth |-> 0,
              pos |-> r.position, res |-> r.res, pre |-> rows]
  /\ rt' = <<>>
  /\ scn' = 0
  /\ UNCHANGED notLedger

\* Cards and depths of the requests that move cards of an appended stream.
MoveCards == {"A", "B", "C"}
MoveDepthArgs == {Null, 0, 1}

\* Appends and moves, with and without a depth, one request at a time.
MovesNext ==
  \/ \E c \in MoveCards : Insert(c, Null)
  \/ \E c \in MoveCards, p \in MoveArgs, d \in MoveDepthArgs : Move(c, p, d)

\* The three insertion routines and the remove, one request at a time.
InsertRoutinesNext ==
  \/ \E c \in Cards, p \in InsertArgs : Insert(c, p)
  \/ \E c \in Cards, p \in InsertArgs : FactoryInsert(c, p)
  \/ \E c \in Cards, p \in InsertArgs : SafeInsert(c, p)
  \/ \E c \in Cards : Remove(c)


(***************************************************************************)
(* Properties of the ledger used by one request at a time                  *)
(***************************************************************************)
Positions(rs) == {r.position : r \in rs}
Members(rs) == {r.card : r \in rs}
PosOf(rs, c) == (CHOOSE r \in RowsOf(rs, c) : TRUE).position

\* Positions are exactly 0 .. count-1, each used once.
WellFormed(rs) ==
  /\ Positions(rs) = 0 .. (Cardinality(rs) - 1)
  /\ \A r1, r2 \in rs : r1.position = r2.position => r1 = r2

\* C1: after any sequence of Insert (with or without a position), Remove and
\* Move calls applied one at a time to an empty stream, the positions of the
\* stream's rows are exactly 0 .. count-1, without duplicates or gaps.
C1_PositionsContiguous == WellFormed(rows)

\* C6: a successful Insert(c, p) of a non-member puts c at exactly p, moves
\* every row that was at a position >= p up by one, leaves the rows below p
\* alone and keeps their order; with the position omitted c lands at count.
C6_InsertContract ==
  (last.op = "insert" /\ last.card \in ActiveCards /\ RowsOf(last.pre, last.card) = {})
  => /\ last.res = "ok"
     /\ Members(rows) = Members(last.pre) \cup {last.card}
     /\ Cardinality(rows) = Cardinality(last.pre) + 1
     /\ PosOf(rows, last.card) = last.pos
     /\ last.arg # Null => last.pos = last.arg
     /\ last.arg = Null => last.pos = Cardinality(last.pre)
     /\ \A r \in last.pre :
          PosOf(rows, r.card) = IF r.position >= last.pos THEN r.position + 1
                                ELSE r.position
     /\ \A r1, r2 \in last.pre :
          r1.position < r2.position => PosOf(rows, r1.card) < PosOf(rows, r2.card)

\* C7: Move(c, newPosition) of a member at cur, with newPosition in range,
\* puts c at exactly newPosition; rows in (cur, new] go down by one when
\* new > cur, rows in [new, cur) go up by one when new < cur; every other row
\* keeps its position and the members are the same.
C7_MoveContract ==
  (/\ last.op = "move"
   /\ RowsOf(last.pre, last.card) # {}
   /\ 0 <= last.arg /\ last.arg <= MaxPosition(last.pre, 0))
  => LET cur == PosOf(last.pre, last.card)
         new == last.arg
     IN /\ last.res \in {"true", "false"}
        /\ Members(rows) = Members(last.pre)
        /\ Cardinality(rows) = Cardinality(last.pre)
        /\ PosOf(rows, last.card) = new
        /\ \A r \in last.pre :
             r.card # last.card =>
               PosOf(rows, r.card) =
                 IF new > cur /\ cur < r.position /\ r.position <= new
                   THEN r.position - 1
                 ELSE IF new < cur /\ new <= r.position /\ r.position < cur
                   THEN r.position + 1
                 ELSE r.position

\* C8: Remove(c) of a member at r deletes its row, moves every row above r
\* down by one, leaves the rows below r alone and returns true; Remove of a
\* non-member returns false and changes no row.
C8_RemoveContract ==
  last.op = "remove"
  => IF RowsOf(last.pre, last.card) # {}
       THEN LET removed == PosOf(last.pre, last.card)
            IN /\ last.res = "true"
               /\ Members(rows) = Members(last.pre) \ {last.card}
               /\ Cardinality(rows) = Cardinality(last.pre) - 1
               /\ \A r \in last.pre :
                    r.card # last.card =>
                      /\ RowsOf(rows, r.card) # {}
                      /\ PosOf(rows, r.card) =
                           IF r.position > removed THEN r.position - 1
                           ELSE r.position
       ELSE last.res = "false" /\ rows = last.pre

\* C9: on a well-formed stream, Insert(c, p) of a non-member immediately
\* followed by Remove(c) leaves every row where it was before the insert.
C9_InsertRemoveRoundTrip ==
  (rt # <<>> /\ WellFormed(rt[1])) => rows = rt[1]

\* C10: from [A@0, B@1, C@2], Insert(D, 1) gives [A@0, D@1, B@2, C@3], then
\* Remove(B) gives [A@0, D@1, C@2], then Move(C, 0) gives [C@0, A@1, D@2].
C10_Scenario ==
  /\ scn = 1 => rows = Stream(0, 2, 3, 1)
  /\ scn = 2 => rows = Stream(0, Null, 2, 1)
  /\ scn = 3 => rows = Stream(1, Null, 0, 2)

\* A move across two other rows (up or down) has happened.
C7_Witness ==
  /\ last.op = "move" /\ last.res = "true"
  /\ RowsOf(last.pre, last.card) # {}
  /\ PosOf(last.pre, last.card) - last.arg \in {-2, 2}
  /\ Cardinality(rows) >= 3

\* A member below other rows has been removed.
C8_Witness ==
  /\ last.op = "remove" /\ last.res = "true"
  /\ \E r \in last.pre : r.position > PosOf(last.pre, last.card)
  /\ \E r \in last.pre : r.position < PosOf(last.pre, last.card)

\* An insert in the middle of a well-formed stream has been undone.
C9_Witness ==
  /\ rt # <<>> /\ WellFormed(rt[1]) /\ Cardinality(rt[1]) >= 2
  /\ \E r \in rt[1] : r.position >= PosOf(last.pre, last.card)

\* The scenario has run to its end.
C10_Witness == scn = 3

\* C11: an insert, by any of the three insertion routines, of a card that is
\* already a member of the stream fails with an error and changes no row.
C11_DuplicateInsertRejected ==
  (last.op \in {"insert", "factoryInsert", "safeInsert"}
     /\ RowsOf(last.pre, last.card) # {})
  => /\ last.res \notin {"ok", "returned"}
     /\ rows = last.pre

C13_MoveUnchanged ==
  (/\ last.op = "move"
   /\ RowsOf(last.pre, last.card) # {}
   /\ last.arg = PosOf(last.pre, last.card)
   /\ last.depth \in {Null, (CHOOSE r \in RowsOf(last.pre, last.card) : TRUE).depth})
  => last.res = "false" /\ rows = last.pre

\* A card at depth 1 has been moved to its own position with depth 1 given.
C13_Witness ==
  /\ last.op = "move" /\ last.res = "false"
  /\ last.depth = 1
  /\ Cardinality(last.pre) >= 2

(***************************************************************************)
(* SimpleJobQueue (simpleJobQueue.js).  JavaScript runs each stretch of    *)
(* code between two awaits without interruption, so every action below is  *)
(* one such stretch: a public call up to its first await, the continuation *)
(* after an await, or a timer callback.                                    *)
(***************************************************************************)
maxRetries == 3

JobIds == 1 .. MaxJobs
NoJob == 0
Priorities == 0 .. MaxPriority
LoopIds == 1 .. MaxLoops

\* A job object before addJob has created it.
NoJobObject == [status |-> "none", retryCount |-> 0, priority |-> 0, inMap |-> FALSE]
FreeLoop == [pc |-> "free", job |-> NoJob, timer |-> FALSE]

\* Faulty variant of InsertJobByPriority: the job goes before the jobs of its
\* own priority.
InsertJobBeforeEqual(js, q, jobId, priority) ==
  LET hits == {i \in 1 .. Len(q) : js[q[i]].inMap /\ js[q[i]].priority <= priority}
  IN IF hits = {} THEN Append(q, jobId)
     ELSE LET insertIndex == CHOOSE i \in hits : \A k \in hits : i <= k
          IN SubSeq(q, 1, insertIndex - 1) \o <<jobId>> \o SubSeq(q, insertIndex, Len(q))

\* SimpleJobQueue.insertJobByPriority
InsertJobByPriority(js, q, jobId, priority) ==
  LET hits == {i \in 1 .. Len(q) : js[q[i]].inMap /\ js[q[i]].priority < priority}
  IN IF hits = {} THEN Append(q, jobId)
     ELSE LET insertIndex == CHOOSE i \in hits : \A k \in hits : i <= k
          IN SubSeq(q, 1, insertIndex - 1) \o <<jobId>> \o SubSeq(q, insertIndex, Len(q))

\* processNextJob, lines 200-207: ids whose job is not in the map are shifted
\* off the list and the next call looks at the rest.
RECURSIVE SkipMissing(_, _)
SkipMissing(js, q) ==
  IF q = <<>> THEN q
  ELSE IF js[Head(q)].inMap THEN q
  ELSE SkipMissing(js, Tail(q))

\* processNextJob, lines 194-213, up to its first await, on the state its
\* caller leaves: js, q, ip are this.jobs, this.pendingJobs, this.isProcessing.
ProcessNextJob(js, q, ip) ==
  LET rest == IF ip THEN SkipMissing(js, q) ELSE q
  IN IF ~ip \/ rest = <<>>
       THEN /\ isProcessing' = FALSE
            /\ pendingJobs' = rest
            /\ jobs' = js
            /\ UNCHANGED <<processingJobId, loops>>
       ELSE LET jobId == Head(rest) IN
            /\ \E l \in LoopIds : loops[l].pc = "free"
            /\ LET l == CHOOSE k \in LoopIds :
                          loops[k].pc = "free" /\ \A m \in LoopIds : loops[m].pc = "free" => k <= m
               IN loops' = [loops EXCEPT ![l] = [pc |-> "dbProcessing", job |-> jobId, timer |-> FALSE]]
            /\ isProcessing' = ip
            /\ pendingJobs' = Tail(rest)
            /\ processingJobId' = jobId
            /\ jobs' = [js EXCEPT ![jobId].status = "processing"]

\* startProcessing, lines 170-175, on the state its caller leaves.
StartProcessingFrom(js, q) ==
  IF isProcessing
    THEN /\ jobs' = js /\ pendingJobs' = q
         /\ UNCHANGED <<isProcessing, processingJobId, loops>>
    ELSE ProcessNextJob(js, q, TRUE)

QueueInit ==
  /\ jobs = [j \in JobIds |-> NoJobObject]
  /\ pendingJobs = <<>>
  /\ isProcessing = FALSE
  /\ processingJobId = NoJob
  /\ loops = [l \in LoopIds |-> FreeLoop]
  /\ nextTimers = 0
  /\ retryTimers = [j \in JobIds |-> 0]
  /\ errs = [j \in JobIds |-> 0]
  /\ adds = {}
  /\ execs = [j \in JobIds |-> 0]
  /\ used = [timeouts |-> 0, stops |-> 0, saveFailures |-> 0]

\* addJob, lines 60-89: the job is put in the map and in the pending list, then
\* the call awaits the INSERT of its row.
AddJob(priority) ==
  /\ \E j \in JobIds : jobs[j].status = "none"
  /\ LET jobId == CHOOSE j \in JobIds :
                    jobs[j].status = "none" /\ \A k \in JobIds : jobs[k].status = "none" => j <= k
         js == [jobs EXCEPT ![jobId] = [status |-> "pending", retryCount |-> 0,
                                        priority |-> priority, inMap |-> TRUE]]
     IN /\ jobs' = js
        /\ pendingJobs' = InsertJobByPriority(js, pendingJobs, jobId, priority)
        /\ adds' = adds \cup {jobId}
  /\ UNCHANGED <<isProcessing, processingJobId, loops, nextTimers, retryTimers, errs, execs, used>>
  /\ UNCHANGED notQueue

\* addJob, lines 90-108: the INSERT succeeded; startProcessing.
AddJobSaved(jobId) ==
  /\ jobId \in adds
  /\ adds' = adds \ {jobId}
  /\ StartProcessingFrom(jobs, pendingJobs)
  /\ UNCHANGED <<nextTimers, retryTimers, errs, execs, used>>
  /\ UNCHANGED notQueue

\* addJob, lines 98-103: the INSERT failed; the job is taken out again.
AddJobSaveFailed(jobId) ==
  /\ jobId \in adds
  /\ used.saveFailures < MaxSaveFailures
  /\ used' = [used EXCEPT !.saveFailures = @ + 1]
  /\ adds' = adds \ {jobId}
  /\ jobs' = [jobs EXCEPT ![jobId].inMap = FALSE]
  /\ pendingJobs' = SelectSeq(pendingJobs, LAMBDA id : id # jobId)
  /\ UNCHANGED <<isProcessing, processingJobId, loops, nextTimers, retryTimers, errs, execs>>
  /\ UNCHANGED notQueue

\* startProcessing called from outside.
StartProcessing ==
  /\ StartProcessingFrom(jobs, pendingJobs)
  /\ UNCHANGED <<nextTimers, retryTimers, errs, adds, execs, used>>
  /\ UNCHANGED notQueue

\* stopProcessing, lines 180-189.
StopProcessing ==
  /\ used.stops < MaxStops
  /\ used' = [used EXCEPT !.stops = @ + 1]
  /\ isProcessing' = FALSE
  /\ jobs' = IF processingJobId # NoJob /\ jobs[processingJobId].inMap
               THEN [jobs EXCEPT ![processingJobId].status = "cancelled"]
               ELSE jobs
  /\ UNCHANGED <<pendingJobs, processingJobId, loops, nextTimers, retryTimers,
                 errs, adds, execs>>
  /\ UNCHANGED notQueue

\* processNextJob, lines 216-223: the status update is written; the timeout is
\* armed and the handler starts.
BeginExecute(l) ==
  /\ loops[l].pc = "dbProcessing"
  /\ loops' = [loops EXCEPT ![l].pc = "executing", ![l].timer = TRUE]
  /\ execs' = [execs EXCEPT ![loops[l].job] = @ + 1]
  /\ UNCHANGED <<jobs, pendingJobs, isProcessing, processingJobId, nextTimers,
                 retryTimers, errs, adds, used>>
  /\ UNCHANGED notQueue

\* processNextJob, lines 223-233: the handler returned.
HandlerReturns(l) ==
  /\ loops[l].pc = "executing"
  /\ loops' = [loops EXCEPT ![l].pc = "dbCompleted", ![l].timer = FALSE]
  /\ jobs' = [jobs EXCEPT ![loops[l].job].status = "completed"]
  /\ UNCHANGED <<pendingJobs, isProcessing, processingJobId, nextTimers,
                 retryTimers, errs, adds, execs, used>>
  /\ UNCHANGED notQueue

\* Faulty variant of CountError: a success would have to reset the count to
\* make up for it.
CountErrorTwice(jobId) == [jobs EXCEPT ![jobId].retryCount = @ + 2]

\* handleJobError, lines 331-337, up to its await, for a job in the map.
CountError(jobId) == [jobs EXCEPT ![jobId].retryCount = @ + 1]

\* handleJobError, lines 340-358, after its await: retry or fail for good.
RetryOrFail(jobId) ==
  IF jobs[jobId].retryCount < maxRetries
    THEN /\ jobs' = [jobs EXCEPT ![jobId].status = "pending"]
         /\ retryTimers' = [retryTimers EXCEPT ![jobId] = @ + 1]
    ELSE /\ jobs' = [jobs EXCEPT ![jobId].status = "failed"]
         /\ UNCHANGED retryTimers

\* processNextJob, lines 236-238: the handler threw; handleJobError starts.
HandlerThrows(l) ==
  /\ loops[l].pc = "executing"
  /\ IF jobs[loops[l].job].inMap
       THEN /\ jobs' = CountError(loops[l].job)
            /\ loops' = [loops EXCEPT ![l].pc = "logFailed", ![l].timer = FALSE]
       ELSE /\ jobs' = jobs
            /\ loops' = [loops EXCEPT ![l].pc = "dbFailed", ![l].timer = FALSE]
  /\ UNCHANGED <<pendingJobs, isProcessing, processingJobId, nextTimers,
                 retryTimers, errs, adds, execs, used>>
  /\ UNCHANGED notQueue

\* handleJobError called from the catch block, after its await.
ErrorLogged(l) ==
  /\ loops[l].pc = "logFailed"
  /\ RetryOrFail(loops[l].job)
  /\ loops' = [loops EXCEPT ![l].pc = "dbFailed"]
  /\ UNCHANGED <<pendingJobs, isProcessing, processingJobId, nextTimers,
                 errs, adds, execs, used>>
  /\ UNCHANGED notQueue

\* processNextJob, lines 241-246: the job is done with; the next call is
\* scheduled.
Finish(l) ==
  /\ loops[l].pc \in {"dbCompleted", "dbFailed"}
  /\ loops' = [loops EXCEPT ![l] = FreeLoop]
  /\ processingJobId' = NoJob
  /\ nextTimers' = nextTimers + 1
  /\ UNCHANGED <<jobs, pendingJobs, isProcessing, retryTimers, errs, adds, execs, used>>
  /\ UNCHANGED notQueue

\* The callback of line 244-246.
NextTimer ==
  /\ nextTimers > 0
  /\ nextTimers' = nextTimers - 1
  /\ ProcessNextJob(jobs, pendingJobs, isProcessing)
  /\ UNCHANGED <<retryTimers, errs, adds, execs, used>>
  /\ UNCHANGED notQueue

\* The callback of lines 217-219: handleJobTimeout, lines 319-325, and
\* handleJobError up to its await.
Timeout(l) ==
  /\ loops[l].pc = "executing" /\ loops[l].timer
  /\ used.timeouts < MaxTimeouts
  /\ used' = [used EXCEPT !.timeouts = @ + 1]
  /\ loops' = [loops EXCEPT ![l].timer = FALSE]
  /\ LET jobId == loops[l].job IN
     IF jobs[jobId].inMap /\ jobs[jobId].status = "processing"
       THEN /\ jobs' = CountError(jobId)
            /\ errs' = [errs EXCEPT ![jobId] = @ + 1]
       ELSE UNCHANGED <<jobs, errs>>
  /\ UNCHANGED <<pendingJobs, isProcessing, processingJobId, nextTimers,
                 retryTimers, adds, execs>>
  /\ UNCHANGED notQueue

\* handleJobError called from the timeout callback, after its await.
TimeoutErrorLogged(jobId) ==
  /\ errs[jobId] > 0
  /\ errs' = [errs EXCEPT ![jobId] = @ - 1]
  /\ RetryOrFail(jobId)
  /\ UNCHANGED <<pendingJobs, isProcessing, processingJobId, loops, nextTimers,
                 adds, execs, used>>
  /\ UNCHANGED notQueue

\* The callback of lines 345-347: the job is put back in the pending list.
RetryTimer(jobId) ==
  /\ retryTimers[jobId] > 0
  /\ retryTimers' = [retryTimers EXCEPT ![jobId] = @ - 1]
  /\ pendingJobs' = InsertJobByPriority(jobs, pendingJobs, jobId, jobs[jobId].priority)
  /\ UNCHANGED <<jobs, isProcessing, processingJobId, loops, nextTimers, errs,
                 adds, execs, used>>
  /\ UNCHANGED notQueue

\* No database or log call is awaited and no 100 ms tick is armed: what takes
\* milliseconds is over.
Quiet ==
  /\ \A l \in LoopIds : loops[l].pc \in {"free", "executing"}
  /\ \A j \in JobIds : errs[j] = 0
  /\ adds = {}
  /\ nextTimers = 0

\* The 5 minute and 30 second timers on a server whose database and log calls
\* take less than that.
TimeoutWhenQuiet(l) == Quiet /\ Timeout(l)
RetryTimerWhenQuiet(jobId) == Quiet /\ RetryTimer(jobId)

\* The queue with addJob as its only caller and the timers in their order.
QueueLoopNext ==
  \/ \E priority \in Priorities : AddJob(priority)
  \/ \E j \in JobIds : AddJobSaved(j)
  \/ \E l \in LoopIds : BeginExecute(l)
  \/ \E l \in LoopIds : HandlerReturns(l)
  \/ \E l \in LoopIds : HandlerThrows(l)
  \/ \E l \in LoopIds : ErrorLogged(l)
  \/ \E l \in LoopIds : Finish(l)
  \/ NextTimer
  \/ \E l \in LoopIds : TimeoutWhenQuiet(l)
  \/ \E j \in JobIds : TimeoutErrorLogged(j)
  \/ \E j \in JobIds : RetryTimerWhenQuiet(j)

\* Every call and callback, in any order.
QueueNext ==
  \/ \E priority \in Priorities : AddJob(priority)
  \/ \E j \in JobIds : AddJobSaved(j)
  \/ \E j \in JobIds : AddJobSaveFailed(j)
  \/ StartProcessing
  \/ StopProcessing
  \/ \E l \in LoopIds : BeginExecute(l)
  \/ \E l \in LoopIds : HandlerReturns(l)
  \/ \E l \in LoopIds : HandlerThrows(l)
  \/ \E l \in LoopIds : ErrorLogged(l)
  \/ \E l \in LoopIds : Finish(l)
  \/ NextTimer
  \/ \E l \in LoopIds : Timeout(l)
  \/ \E j \in JobIds : TimeoutErrorLogged(j)
  \/ \E j \in JobIds : RetryTimer(j)

(***************************************************************************)
(* Properties of the job queue                                             *)
(***************************************************************************)
\* The status changes of the job state machine, with the creation of a job
\* and the retry edge from a failed attempt back to pending.
AllowedEdges ==
  {<<"none", "pending">>, <<"pending", "processing">>,
   <<"processing", "completed">>, <<"processing", "failed">>,
   <<"processing", "cancelled">>, <<"processing", "pending">>,
   <<"failed", "pending">>}

\* C2: a job's status changes only along pending -> processing, processing ->
\* completed / failed / cancelled, or the retry edge back to pending; it never
\* becomes completed or failed without having been processing, and a completed
\* or terminally failed job never changes status again.
C2_StatusEdges ==
  [][\A j \in JobIds :
       jobs'[j].status # jobs[j].status
         => <<jobs[j].status, jobs'[j].status>> \in AllowedEdges]_vars

\* C3: at most one job handler is executing at any time.
C3_SingleHandler ==
  Cardinality({l \in LoopIds : loops[l].pc = "executing"}) <= 1

\* A handleJobError call for the job is between its count and its decision.
ErrorInFlight(j) ==
  errs[j] > 0 \/ \E l \in LoopIds : loops[l].pc = "logFailed" /\ loops[l].job = j

\* C4: a job's handler is executed at most 3 times and its retryCount never
\* exceeds 3; once it has failed 3 times its status is failed for good and it
\* is never in the pending list again.
C4_RetryCeiling ==
  \A j \in JobIds :
    /\ jobs[j].retryCount <= maxRetries
    /\ execs[j] <= maxRetries
    /\ (jobs[j].retryCount >= maxRetries /\ ~ErrorInFlight(j))
         => /\ jobs[j].status = "failed"
            /\ \A i \in 1 .. Len(pendingJobs) : pendingJobs[i] # j


\* The job id is in the pending list.
InPending(j) == \E i \in 1 .. Len(pendingJobs) : pendingJobs[i] = j

\* No timeout has fired, stopProcessing was not called, no INSERT failed.
FaultFree == used.timeouts = 0 /\ used.stops = 0 /\ used.saveFailures = 0

\* C15: with nothing but handler errors going wrong, every thrown error adds
\* exactly one to retryCount and a success does not reset it: a job whose
\* handler threw on its first two executions and returned on its third is
\* completed with retryCount 2, and stays so.
C15_TwoFailuresThenSuccess ==
  FaultFree =>
    \A j \in JobIds :
      /\ jobs[j].retryCount \in {execs[j] - 1, execs[j]} \cap Nat
      /\ jobs[j].status = "completed"
           => /\ jobs[j].retryCount = execs[j] - 1
              /\ execs[j] = 3 => jobs[j].retryCount = 2
              /\ ~InPending(j)
              /\ retryTimers[j] = 0

\* A job has thrown twice and returned from its third execution.
C15_Witness ==
  /\ FaultFree
  /\ \E j \in JobIds :
       jobs[j].status = "completed" /\ execs[j] = 3 /\ jobs[j].retryCount = 2

\* Number of entries of the job id in a list.
CountIn(q, j) == Cardinality({i \in 1 .. Len(q) : q[i] = j})

\* The entries of the pending list whose job is in the map (the others are
\* shifted off unseen by processNextJob).
Live(q, js) == SelectSeq(q, LAMBDA id : js[id].inMap)

\* The list is in order of non-increasing priority.
PendingSorted ==
  LET q == Live(pendingJobs, jobs)
  IN \A i, k \in 1 .. Len(q) : i < k => jobs[q[i]].priority >= jobs[q[k]].priority

\* A step that adds an entry puts it behind every entry of the same or a
\* higher priority and before every entry of a lower one, and moves no other.
InsertedInOrder ==
  LET old == Live(pendingJobs, jobs)
      new == Live(pendingJobs', jobs')
  IN Len(new) > Len(old)
     => \E i \in 1 .. Len(new) :
          /\ old = SubSeq(new, 1, i - 1) \o SubSeq(new, i + 1, Len(new))
          /\ \A k \in 1 .. i - 1 : jobs'[new[k]].priority >= jobs'[new[i]].priority
          /\ \A k \in i + 1 .. Len(new) : jobs'[new[k]].priority < jobs'[new[i]].priority

\* A step in which the loop starts a job takes the head of the list (the first
\* id whose job is in the map), and that job is the one started.
HeadTaken ==
  \A l \in LoopIds :
    (loops[l].pc = "free" /\ loops'[l].pc = "dbProcessing")
    => LET waiting == SkipMissing(jobs, pendingJobs)
       IN /\ waiting # <<>>
          /\ loops'[l].job = Head(waiting)
          /\ pendingJobs' = Tail(waiting)
          /\ jobs'[Head(waiting)].status = "processing"

\* C16: the pending list is always ordered by non-increasing priority with
\* jobs of equal priority in order of insertion (a retry counts as arriving
\* when it is re-inserted), and the loop always takes the head of the list.
C16_PriorityThenArrival ==
  /\ []PendingSorted
  /\ [][InsertedInOrder /\ HeadTaken]_vars

\* A job that arrived later waits ahead of an earlier one of lower priority,
\* and a retried job has been re-inserted.
C16_Witness ==
  /\ Len(pendingJobs) >= 2
  /\ pendingJobs[1] > pendingJobs[2]
  /\ jobs[pendingJobs[1]].priority > jobs[pendingJobs[2]].priority
  /\ jobs[pendingJobs[2]].retryCount > 0

\* C17: when addJob returns the job id (its INSERT has succeeded and
\* startProcessing has been called), the job's status is pending, whether the
\* queue was idle or busy; it becomes processing only at a later step.
C17_PendingAfterEnqueue ==
  [][\A j \in JobIds :
       (j \in adds /\ j \notin adds' /\ jobs'[j].inMap)
         => jobs'[j].status = "pending"]_vars

\* The handler of job j is running.
Executing(j) == \E l \in LoopIds : loops[l].pc = "executing" /\ loops[l].job = j

\* Another job than j has just been handled after its handler threw (its
\* status update, failed or not, is awaited), or after its timeout fired.
OtherJobHandled(j) ==
  \E l \in LoopIds :
    /\ loops[l].job # j
    /\ \/ loops[l].pc = "dbFailed"
       \/ loops[l].pc = "executing" /\ ~loops[l].timer /\ errs[loops[l].job] = 0

\* C18: a handler error, a timeout or a failed status update of one job never
\* stops the loop: once that job has been handled, every other job in the
\* pending list is still dequeued and executed.
C18_LoopSurvivesFailures ==
  \A j \in JobIds :
    (InPending(j) /\ jobs[j].inMap /\ OtherJobHandled(j)) ~> Executing(j)

\* C19: once stopProcessing has marked the running job cancelled, the job
\* stays cancelled when its handler finishes: its status does not change, the
\* finish is not counted as a failure and the job is not put in the pending
\* list or scheduled for it.
C19_CancelledStays ==
  [][\A j \in JobIds :
       jobs[j].status = "cancelled"
         => /\ jobs'[j].status = "cancelled"
            /\ jobs'[j].retryCount = jobs[j].retryCount
            /\ CountIn(pendingJobs', j) <= CountIn(pendingJobs, j)
            /\ retryTimers'[j] <= retryTimers[j]]_vars

\* C20: when a job's timeout has fired while its handler is running, what the
\* handler does afterwards (return or throw) changes neither the job's status
\* nor its retryCount and adds no pending-list entry for it, now or later.
C20_TimeoutCountsOnce ==
  [][\A l \in LoopIds :
       (loops[l].pc = "executing" /\ ~loops[l].timer /\ loops'[l].pc # "executing")
         => /\ jobs'[loops[l].job].status = jobs[loops[l].job].status
            /\ jobs'[loops[l].job].retryCount = jobs[loops[l].job].retryCount
            /\ loops'[l].pc # "logFailed"]_vars

(***************************************************************************)
(* The ledger used by two requests at once.  Each request runs its method  *)
(* inside transaction() of models/database.js (BEGIN, the callback, COMMIT,*)
(* ROLLBACK when it throws) on its own pooled connection; every awaited    *)
(* query is one step.  Isolation is PostgreSQL's default, READ COMMITTED:  *)
(* a statement sees the committed rows and its own transaction's writes,   *)
(* and a row written or locked by a transaction stays locked until that    *)
(* transaction ends.  A statement that has to wait for a row lock is       *)
(* modelled as issued when the lock is gone.                               *)
(***************************************************************************)
TxIds == {1, 2}
TxCards == {"A", "B", "C"}

\* Positions that are in range whichever of the two requests comes first.
TxInsertArgs == {Null, 0}
TxMoveArgs == 0 .. MaxPos

TxCalls ==
  [op : {"addCardToStream", "factoryAddCardToStream"}, card : TxCards,
   arg : TxInsertArgs]
    \cup [op : {"removeCardFromStream"}, card : TxCards, arg : {Null}]
    \cup [op : {"reorderCard"}, card : TxCards, arg : TxMoveArgs]

NoTx ==
  [op |-> "none", card |-> "A", arg |-> Null, pc |-> "idle", position |-> Null,
   cur |-> Null, del |-> {}, ins |-> {}, lk |-> {}]

\* The stream [A@0, B@1]; no request yet.
TxInit ==
  /\ db = Stream(0, 1, Null, Null)
  /\ tx = [t \in TxIds |-> NoTx]

\* The rows a statement of transaction t sees.
View(t) == {r \in db : r.card \notin tx[t].del} \cup tx[t].ins

\* Row locks held by the other transactions.
LockedByOthers(t) == UNION {tx[o].lk : o \in TxIds \ {t}}

\* Cards of the rows in the range of an UPDATE.
InRange(rs, lo, hi) == {r.card : r \in {x \in rs : lo <= x.position /\ x.position <= hi}}

\* Transaction t after a statement that turns what it sees into rs, locking
\* the rows of the cards cs.
Written(t, rs, cs, pc) ==
  [tx[t] EXCEPT !.del = {r.card : r \in db \ rs},
                !.ins = rs \ db,
                !.lk = @ \cup cs,
                !.pc = pc]

\* The first query of each method.
FirstQuery(call) ==
  CASE call.op = "addCardToStream" -> "existing"
    [] call.op = "removeCardFromStream" -> "card"
    [] call.op = "reorderCard" -> "current"
    [] call.op = "factoryAddCardToStream" ->
         IF call.arg = Null THEN "next" ELSE "existingForUpdate"

\* A request arrives: transaction() takes a connection and sends BEGIN.
Begin(t, call) ==
  /\ tx[t].pc = "idle"
  /\ tx' = [tx EXCEPT ![t] = [NoTx EXCEPT !.op = call.op, !.card = call.card,
                                          !.arg = call.arg, !.position = call.arg,
                                          !.pc = FirstQuery(call)]]
  /\ UNCHANGED db
  /\ UNCHANGED notTx

\* The rows the next statement of transaction t has to lock.
Needs(t) ==
  LET v == View(t)
      c == tx[t].card
      own == {r.card : r \in RowsOf(v, c)}
  IN CASE tx[t].pc = "shift" -> InRange(v, tx[t].position, Top(v))
       [] tx[t].pc = "insert" -> {c}
       [] tx[t].pc = "delete" -> own
       [] tx[t].pc = "shiftDown" -> InRange(v, tx[t].cur + 1, Top(v))
       [] tx[t].pc = "shiftBetween" ->
            IF tx[t].arg > tx[t].cur
              THEN InRange(v, tx[t].cur + 1, tx[t].arg)
              ELSE InRange(v, tx[t].arg, tx[t].cur - 1)
       [] tx[t].pc = "update" -> own
       [] tx[t].pc = "existingForUpdate" -> own
       [] OTHER -> {}

CanLock(t) == Needs(t) \cap LockedByOthers(t) = {}

\* StreamCard.addCardToStream, lines 54-62: is the card in the stream already?
\* (The two checks before it read tables no request here writes.)
AddExisting(t) ==
  /\ tx[t].pc = "existing"
  /\ tx' = [tx EXCEPT ![t].pc =
              IF RowsOf(View(t), tx[t].card) # {} THEN "rollback"
              ELSE IF tx[t].arg = Null THEN "maxPosition" ELSE "shift"]
  /\ UNCHANGED db
  /\ UNCHANGED notTx

\* StreamCard.addCardToStream, lines 65-71: no position given, take MAX + 1.
AddMaxPosition(t) ==
  /\ tx[t].pc = "maxPosition"
  /\ tx' = [tx EXCEPT ![t].position = MaxPosition(View(t), -1) + 1,
                      ![t].pc = "shift"]
  /\ UNCHANGED db
  /\ UNCHANGED notTx

\* StreamCard.addCardToStream, lines 73-77, and CardFactory.addCardToStream,
\* lines 334-340: UPDATE ... SET position = position + 1 WHERE position >= $2.
Shift(t) ==
  /\ tx[t].pc = "shift"
  /\ CanLock(t)
  /\ tx' = [tx EXCEPT ![t] =
              Written(t, ShiftRange(View(t), tx[t].position, Top(View(t)), 1),
                      Needs(t), "insert")]
  /\ UNCHANGED db
  /\ UNCHANGED notTx

\* StreamCard.addCardToStream, lines 79-84, and CardFactory.addCardToStream,
\* lines 351-355: the INSERT; the unique index on (stream_id, card_id) waits
\* for an uncommitted row of the same card and refuses a committed one.
InsertRow(t) ==
  /\ tx[t].pc = "insert"
  /\ CanLock(t)
  /\ tx' = [tx EXCEPT ![t] =
              IF RowsOf(View(t), tx[t].card) # {}
                THEN [tx[t] EXCEPT !.pc = "rollback"]
                ELSE Written(t, View(t) \cup {[card |-> tx[t].card,
                                               position |-> tx[t].position,
                                               depth |-> 0]},
                             Needs(t), "commit")]
  /\ UNCHANGED db
  /\ UNCHANGED notTx

\* StreamCard.removeCardFromStream, lines 100-109: the card's position, or
\* return false.
RemoveCard(t) ==
  /\ tx[t].pc = "card"
  /\ tx' = [tx EXCEPT ![t] =
              IF RowsOf(View(t), tx[t].card) = {}
                THEN [tx[t] EXCEPT !.pc = "commit"]
                ELSE [tx[t] EXCEPT !.cur = PosOf(View(t), tx[t].card),
                                   !.pc = "delete"]]
  /\ UNCHANGED db
  /\ UNCHANGED notTx

\* StreamCard.removeCardFromStream, lines 111-115: the DELETE.
RemoveDelete(t) ==
  /\ tx[t].pc = "delete"
  /\ CanLock(t)
  /\ tx' = [tx EXCEPT ![t] =
              Written(t, View(t) \ RowsOf(View(t), tx[t].card), Needs(t),
                      "shiftDown")]
  /\ UNCHANGED db
  /\ UNCHANGED notTx

\* StreamCard.removeCardFromStream, lines 117-121: UPDATE ... SET position =
\* position - 1 WHERE position > $2.
RemoveShift(t) ==
  /\ tx[t].pc = "shiftDown"
  /\ CanLock(t)
  /\ tx' = [tx EXCEPT ![t] =
              Written(t, ShiftRange(View(t), tx[t].cur + 1, Top(View(t)), -1),
                      Needs(t), "commit")]
  /\ UNCHANGED db
  /\ UNCHANGED notTx

\* StreamCard.reorderCard, lines 139-154: the card's row; throw when there is
\* none, return false when it is at the position already (newDepth is null).
ReorderCurrent(t) ==
  /\ tx[t].pc = "current"
  /\ tx' = [tx EXCEPT ![t] =
              IF RowsOf(View(t), tx[t].card) = {}
                THEN [tx[t] EXCEPT !.pc = "rollback"]
              ELSE IF PosOf(View(t), tx[t].card) = tx[t].arg
                THEN [tx[t] EXCEPT !.pc = "commit"]
              ELSE [tx[t] EXCEPT !.cur = PosOf(View(t), tx[t].card),
                                 !.pc = "maxResult"]]
  /\ UNCHANGED db
  /\ UNCHANGED notTx

\* StreamCard.reorderCard, lines 156-165: the new position against MAX.
ReorderMax(t) ==
  /\ tx[t].pc = "maxResult"
  /\ tx' = [tx EXCEPT ![t].pc =
              IF tx[t].arg < 0 \/ tx[t].arg > MaxPosition(View(t), 0)
                THEN "rollback" ELSE "shiftBetween"]
  /\ UNCHANGED db
  /\ UNCHANGED notTx

\* StreamCard.reorderCard, lines 167-182: shift the rows between the old and
\* the new position.
ReorderShift(t) ==
  /\ tx[t].pc = "shiftBetween"
  /\ CanLock(t)
  /\ tx' = [tx EXCEPT ![t] =
              Written(t,
                      IF tx[t].arg > tx[t].cur
                        THEN ShiftRange(View(t), tx[t].cur + 1, tx[t].arg, -1)
                        ELSE ShiftRange(View(t), tx[t].arg, tx[t].cur - 1, 1),
                      Needs(t), "update")]
  /\ UNCHANGED db
  /\ UNCHANGED notTx

\* StreamCard.reorderCard, lines 184-196: UPDATE ... SET position = $3 WHERE
\* card_id = $2.
ReorderUpdate(t) ==
  /\ tx[t].pc = "update"
  /\ CanLock(t)
  /\ tx' = [tx EXCEPT ![t] =
              Written(t, {IF r.card = tx[t].card
                            THEN [r EXCEPT !.position = tx[t].arg] ELSE r :
                          r \in View(t)},
                      Needs(t), "commit")]
  /\ UNCHANGED db
  /\ UNCHANGED notTx

\* CardFactory.addCardToStream, lines 300-307: no position given, take MAX + 1.
FactoryNext(t) ==
  /\ tx[t].pc = "next"
  /\ tx' = [tx EXCEPT ![t].position = MaxPosition(View(t), -1) + 1,
                      ![t].pc = "existingForUpdate"]
  /\ UNCHANGED db
  /\ UNCHANGED notTx

\* CardFactory.addCardToStream, lines 309-317: SELECT ... FOR UPDATE of the
\* card's row; return when there is one.
FactoryExisting(t) ==
  /\ tx[t].pc = "existingForUpdate"
  /\ CanLock(t)
  /\ tx' = [tx EXCEPT ![t].lk = @ \cup Needs(t),
                      ![t].pc = IF Needs(t) # {} THEN "commit" ELSE "lockStream"]
  /\ UNCHANGED db
  /\ UNCHANGED notTx

\* CardFactory.addCardToStream, lines 319-323: SELECT ... LIMIT 1 FOR UPDATE
\* locks one row of the stream, whichever the scan returns; none when the
\* stream has no row.
FactoryLockStream(t) ==
  /\ tx[t].pc = "lockStream"
  /\ \E cs \in (IF View(t) = {} THEN {{}} ELSE {{r.card} : r \in View(t)}) :
       /\ cs \cap LockedByOthers(t) = {}
       /\ tx' = [tx EXCEPT ![t].lk = @ \cup cs, ![t].pc = "occupied"]
  /\ UNCHANGED db
  /\ UNCHANGED notTx

\* CardFactory.addCardToStream, lines 326-341: shift only when a row is at
\* the position (position is never null here).
FactoryOccupied(t) ==
  /\ tx[t].pc = "occupied"
  /\ tx' = [tx EXCEPT ![t].pc =
              IF \E r \in View(t) : r.position = tx[t].position
                THEN "shift" ELSE "insert"]
  /\ UNCHANGED db
  /\ UNCHANGED notTx

\* transaction(): the callback returned, COMMIT.
Commit(t) ==
  /\ tx[t].pc = "commit"
  /\ db' = View(t)
  /\ tx' = [tx EXCEPT ![t].del = {}, ![t].ins = {}, ![t].lk = {},
                      ![t].pc = "committed"]
  /\ UNCHANGED notTx

\* transaction(): the callback threw, ROLLBACK.
Rollback(t) ==
  /\ tx[t].pc = "rollback"
  /\ tx' = [tx EXCEPT ![t].del = {}, ![t].ins = {}, ![t].lk = {},
                      ![t].pc = "aborted"]
  /\ UNCHANGED db
  /\ UNCHANGED notTx

\* Transaction t waits for a row lock.
Waiting(t) ==
  \/ ~CanLock(t)
  \/ tx[t].pc = "lockStream" /\ View(t) # {}
       /\ {r.card : r \in View(t)} \subseteq LockedByOthers(t)

\* Every transaction waits for another one: PostgreSQL's deadlock detector
\* fails the statement of one of them, which makes its callback throw.
DeadlockDetected(t) ==
  /\ \A o \in TxIds : Waiting(o)
  /\ tx' = [tx EXCEPT ![t].pc = "rollback"]
  /\ UNCHANGED db
  /\ UNCHANGED notTx

TxNext ==
  \/ \E t \in TxIds, call \in TxCalls : Begin(t, call)
  \/ \E t \in TxIds : AddExisting(t)
  \/ \E t \in TxIds : AddMaxPosition(t)
  \/ \E t \in TxIds : Shift(t)
  \/ \E t \in TxIds : InsertRow(t)
  \/ \E t \in TxIds : RemoveCard(t)
  \/ \E t \in TxIds : RemoveDelete(t)
  \/ \E t \in TxIds : RemoveShift(t)
  \/ \E t \in TxIds : ReorderCurrent(t)
  \/ \E t \in TxIds : ReorderMax(t)
  \/ \E t \in TxIds : ReorderShift(t)
  \/ \E t \in TxIds : ReorderUpdate(t)
  \/ \E t \in TxIds : FactoryNext(t)
  \/ \E t \in TxIds : FactoryExisting(t)
  \/ \E t \in TxIds : FactoryLockStream(t)
  \/ \E t \in TxIds : FactoryOccupied(t)
  \/ \E t \in TxIds : Commit(t)
  \/ \E t \in TxIds : Rollback(t)
  \/ \E t \in TxIds : DeadlockDetected(t)

\* C5: when two mutating ledger calls on one stream overlap, then for every
\* interleaving of their queries the stream ends, both transactions over,
\* with positions exactly 0 .. count-1 and each card a member at most once.
C5_ConcurrentCallsSerialized ==
  (\A t \in TxIds : tx[t].pc \in {"committed", "aborted"})
    => /\ WellFormed(db)
       /\ \A c \in TxCards : Cardinality(RowsOf(db, c)) <= 1

(***************************************************************************)
(* Repair of a stream: StreamCard.bulkUpdatePositions writes any positions *)
(* a caller passes, StreamCard.normalizePositions renumbers.  The rows are *)
(* kept as a sequence in order of added_at.                                *)
(***************************************************************************)
RepairCards == {"A", "B", "C"}
RepairArgs == 0 .. MaxPos + 1

\* The rows of the stream as the set the SQL operators work on.
RowSet(tbl) == {tbl[i] : i \in 1 .. Len(tbl)}

\* Faulty variant of NormalizePositions: of two rows at the same position the
\* one added later comes first.
NormalizePositionsLatestFirst(tbl) ==
  LET n == Len(tbl)
      i(k) == Cardinality({j \in 1 .. n :
                 \/ tbl[j].position < tbl[k].position
                 \/ tbl[j].position = tbl[k].position /\ j > k})
  IN [rows |-> [k \in 1 .. n |-> [tbl[k] EXCEPT !.position = i(k)]],
      updated |-> Cardinality({k \in 1 .. n : tbl[k].position # i(k)})]

\* StreamCard.normalizePositions, lines 379-408: the rows ORDER BY position,
\* added_at; the row at index i of that order gets position i when it has
\* another one; the number of rows updated is returned.
NormalizePositions(tbl) ==
  LET n == Len(tbl)
      i(k) == Cardinality({j \in 1 .. n :
                 \/ tbl[j].position < tbl[k].position
                 \/ tbl[j].position = tbl[k].position /\ j < k})
  IN [rows |-> [k \in 1 .. n |-> [tbl[k] EXCEPT !.position = i(k)]],
      updated |-> Cardinality({k \in 1 .. n : tbl[k].position # i(k)})]

NoRepairCall == [op |-> "none", pre |-> <<>>, updated |-> 0, before |-> <<>>]

RepairInit ==
  /\ table = <<>>
  /\ repair = NoRepairCall

\* StreamCard.addCardToStream of a non-member with the position omitted.
RepairAppend(c) ==
  LET r == AddCardToStream(RowSet(table), c, Null, 0) IN
  /\ r.res = "ok"
  /\ table' = Append(table, CHOOSE x \in r.rows : x.card = c)
  /\ repair' = [op |-> "add", pre |-> table, updated |-> 0, before |-> <<>>]
  /\ UNCHANGED notRepair

\* StreamCard.bulkUpdatePositions with one update {cardId, position}.
BulkUpdatePositions(c, p) ==
  /\ table' = [k \in 1 .. Len(table) |->
                 IF table[k].card = c THEN [table[k] EXCEPT !.position = p]
                 ELSE table[k]]
  /\ repair' = [op |-> "bulkUpdate", pre |-> table,
              updated |-> Cardinality(RowsOf(RowSet(table), c)), before |-> <<>>]
  /\ UNCHANGED notRepair

\* StreamCard.normalizePositions called by one request.
Normalize ==
  LET r == NormalizePositions(table) IN
  /\ table' = r.rows
  /\ repair' = [op |-> "normalize", pre |-> table, updated |-> r.updated,
              before |-> IF repair.op = "normalize" THEN repair.pre ELSE <<>>]
  /\ UNCHANGED notRepair

RepairNext ==
  \/ \E c \in RepairCards : RepairAppend(c)
  \/ \E c \in RepairCards, p \in RepairArgs : BulkUpdatePositions(c, p)
  \/ Normalize

\* C14: normalizePositions, on any assignment of positions, leaves the
\* stream with positions exactly 0 .. N-1 in order of previous position, ties
\* in order of insertion; on a normalized stream (so also when applied a
\* second time) it changes no row and reports 0 updated cards.
C14_NormalizeRepairs ==
  repair.op = "normalize"
  => /\ Len(table) = Len(repair.pre)
     /\ \A k \in 1 .. Len(table) :
          /\ table[k].card = repair.pre[k].card
          /\ table[k].depth = repair.pre[k].depth
     /\ WellFormed(RowSet(table))
     /\ \A j, k \in 1 .. Len(table) :
          (\/ repair.pre[j].position < repair.pre[k].position
           \/ repair.pre[j].position = repair.pre[k].position /\ j < k)
            => table[j].position < table[k].position
     /\ WellFormed(RowSet(repair.pre)) => table = repair.pre /\ repair.updated = 0
     /\ repair.before # <<>> => table = repair.pre /\ repair.updated = 0

\* A stream of three rows with two at one position and a gap has been
\* normalized, and normalized again.
C14_Witness ==
  /\ repair.op = "normalize" /\ Len(repair.before) = 3
  /\ \E j, k \in 1 .. 3 :
       j < k /\ repair.before[j].position = repair.before[k].position
  /\ \E q \in 0 .. 2 : \A k \in 1 .. 3 : repair.before[k].position # q
  /\ repair.before # repair.pre

(***************************************************************************)
(* cleanupOldJobs (simpleJobQueue.js).  Every status change of the queue    *)
(* writes the job object in this.jobs and then the job's processing_jobs    *)
(* row through updateJobInDatabase, which catches a failing UPDATE and      *)
(* only logs it.  Dates are counted in days.                                *)
(***************************************************************************)
\* Days that pass in one run, the largest daysOld a caller passes, and the
\* UPDATEs of updateJobInDatabase that fail in one run.
MaxClock == 2
MaxDaysOld == 1
MaxUpdateFailures == 1

DaysOldArgs == 0 .. MaxDaysOld

NoMemJob ==
  [inMap |-> FALSE, status |-> "none", completedAt |-> Null,
   retryCount |-> 0, running |-> FALSE]
NoPjRow == [present |-> FALSE, status |-> "none", completed_at |-> Null]
NoPurgeCall ==
  [op |-> "none", daysOld |-> 0, cutoff |-> 0, mem |-> <<>>, pj |-> <<>>,
   rowCount |-> 0]

\* getJobStatus(jobId): null for an id that is not in this.jobs.
GetJobStatus(m, j) == IF m[j].inMap THEN m[j].status ELSE "null"

\* updateJobInDatabase(jobId, status): UPDATE processing_jobs SET status,
\* completed_at = now for completed / failed; a failing UPDATE is caught.
UpdateJobInDatabase(tbl, j, status, now, ok) ==
  IF ok /\ tbl[j].present
  THEN [tbl EXCEPT ![j].status = status,
                   ![j].completed_at =
                     IF status \in {"completed", "failed"} THEN now ELSE @]
  ELSE tbl

\* The rows DELETE ... WHERE status IN ('completed', 'failed') AND
\* completed_at < $1 removes (a NULL completed_at compares as unknown).
DeletedRows(tbl, cutoff) ==
  {j \in JobIds : /\ tbl[j].present
                  /\ tbl[j].status \in {"completed", "failed"}
                  /\ tbl[j].completed_at # Null
                  /\ tbl[j].completed_at < cutoff}

\* The entries the loop over this.jobs.entries() deletes.
DeletedEntries(m, cutoff) ==
  {j \in JobIds : /\ m[j].inMap
                  /\ m[j].status \in {"completed", "failed"}
                  /\ m[j].completedAt # Null
                  /\ m[j].completedAt < cutoff}

CleanupInit ==
  /\ mem = [j \in JobIds |-> NoMemJob]
  /\ pj = [j \in JobIds |-> NoPjRow]
  /\ clock = 0
  /\ dbFails = 0
  /\ purge = NoPurgeCall

\* Whether the UPDATE of a status change succeeds.
UpdateOutcomes == IF dbFails < MaxUpdateFailures THEN BOOLEAN ELSE {TRUE}

Updated(j, status, ok) ==
  /\ pj' = UpdateJobInDatabase(pj, j, status, clock, ok)
  /\ dbFails' = IF ok THEN dbFails ELSE dbFails + 1
  /\ purge' = NoPurgeCall
  /\ UNCHANGED clock

\* addJob with a fresh id: the job object and its INSERTed row.
JobAdded(j) ==
  /\ ~mem[j].inMap
  /\ ~pj[j].present
  /\ mem' = [mem EXCEPT ![j] = [NoMemJob EXCEPT !.inMap = TRUE, !.status = "pending"]]
  /\ pj' = [pj EXCEPT ![j] = [NoPjRow EXCEPT !.present = TRUE, !.status = "pending"]]
  /\ purge' = NoPurgeCall
  /\ UNCHANGED <<clock, dbFails>>
  /\ UNCHANGED notCleanup

\* processNextJob takes the job: status processing, then the handler runs.
JobStarted(j) ==
  /\ mem[j].inMap
  /\ mem[j].status = "pending"
  /\ ~mem[j].running
  /\ mem' = [mem EXCEPT ![j].status = "processing", ![j].running = TRUE]
  /\ \E ok \in UpdateOutcomes : Updated(j, "processing", ok)
  /\ UNCHANGED notCleanup

\* The handler returns: status completed, completedAt = now.
JobCompleted(j) ==
  /\ mem[j].inMap
  /\ mem[j].running
  /\ mem' = [mem EXCEPT ![j].status = "completed", ![j].completedAt = clock,
                        ![j].running = FALSE]
  /\ \E ok \in UpdateOutcomes : Updated(j, "completed", ok)
  /\ UNCHANGED notCleanup

\* The handler throws: handleJobError counts it, then pending or failed.
JobErrored(j) ==
  /\ mem[j].inMap
  /\ mem[j].running
  /\ IF mem[j].retryCount + 1 < maxRetries
     THEN /\ mem' = [mem EXCEPT ![j].retryCount = @ + 1, ![j].status = "pending",
                                ![j].running = FALSE]
          /\ \E ok \in UpdateOutcomes : Updated(j, "pending", ok)
     ELSE /\ mem' = [mem EXCEPT ![j].retryCount = @ + 1, ![j].status = "failed",
                                ![j].completedAt = clock, ![j].running = FALSE]
          /\ \E ok \in UpdateOutcomes : Updated(j, "failed", ok)
  /\ UNCHANGED notCleanup

\* stopProcessing while the handler of the job runs.
JobCancelled(j) ==
  /\ mem[j].inMap
  /\ mem[j].running
  /\ mem[j].status = "processing"
  /\ mem' = [mem EXCEPT ![j].status = "cancelled"]
  /\ \E ok \in UpdateOutcomes : Updated(j, "cancelled", ok)
  /\ UNCHANGED notCleanup

\* A day passes.
Tick ==
  /\ clock < MaxClock
  /\ clock' = clock + 1
  /\ purge' = NoPurgeCall
  /\ UNCHANGED <<mem, pj, dbFails>>
  /\ UNCHANGED notCleanup

\* cleanupOldJobs(daysOld): the DELETE, then the loop over this.jobs.
CleanupOldJobs(daysOld) ==
  LET cutoffDate == clock - daysOld IN
  /\ pj' = [j \in JobIds |->
              IF j \in DeletedRows(pj, cutoffDate) THEN NoPjRow ELSE pj[j]]
  /\ mem' = [j \in JobIds |->
               IF j \in DeletedEntries(mem, cutoffDate) THEN NoMemJob ELSE mem[j]]
  /\ purge' = [op |-> "cleanup", daysOld |-> daysOld, cutoff |-> cutoffDate,
               mem |-> mem, pj |-> pj,
               rowCount |-> Cardinality(DeletedRows(pj, cutoffDate))]
  /\ UNCHANGED <<clock, dbFails>>
  /\ UNCHANGED notCleanup

CleanupNext ==
  \/ \E j \in JobIds : JobAdded(j)
  \/ \E j \in JobIds : JobStarted(j)
  \/ \E j \in JobIds : JobCompleted(j)
  \/ \E j \in JobIds : JobErrored(j)
  \/ \E j \in JobIds : JobCancelled(j)
  \/ Tick
  \/ \E daysOld \in DaysOldArgs : CleanupOldJobs(daysOld)

\* The jobs Cleanup has to remove: completed or failed, completed before the
\* threshold.
Purgeable(m, j, cutoff) ==
  /\ m[j].inMap
  /\ m[j].status \in {"completed", "failed"}
  /\ m[j].completedAt # Null
  /\ m[j].completedAt < cutoff

\* C21: Cleanup(daysOld) removes exactly the completed or failed jobs that
\* were completed before the threshold, from the processing_jobs table and
\* from the map alike; every other job keeps its map entry and its row as
\* they were, and GetStatus of a purged job returns null.
C21_CleanupPurgesExactly ==
  purge.op = "cleanup" =>
    \A j \in JobIds :
      IF Purgeable(purge.mem, j, purge.cutoff)
      THEN /\ ~mem[j].inMap
           /\ ~pj[j].present
           /\ GetJobStatus(mem, j) = "null"
      ELSE /\ mem[j] = purge.mem[j]
           /\ pj[j] = purge.pj[j]

(***************************************************************************)
(* Card lifecycle: CardFactory and the Card model (part_007) and the card   *)
(* routes (part_009), used by one request at a time on one brain with one   *)
(* stream.  A call is one action: its transactions run to their end before  *)
(* the next call starts.                                                    *)
(***************************************************************************)
\* Calls in one run, cards one run creates, and queries that fail in the
\* middle of Card.create.
MaxCalls == 4
MaxNewCards == 2
MaxCreateFaults == 1

\* JavaScript null / undefined where a string is expected.
NoTitle == "<null>"
NoPath == "<null>"
NoFile == "<no file>"

\* The cards the brain holds when the run starts: a saved card with a body
\* file, an unsaved card and a file card; the ids of the cards created later.
FirstCards == 1 .. 3
CardIds == 1 .. (3 + MaxNewCards)

\* Titles, file names and contents a request may carry.
TitleArgs == {"", " A", "A", "a"}
ContentArgs == {"", "yy"}
PositionArgs == {Null, 0}

\* title.trim()
Trim(t) == IF t = " A" THEN "A" ELSE t

\* title.replace(/[^a-zA-Z0-9\s-]/g, '').replace(/\s+/g, '-').toLowerCase()
Sanitize(t) ==
  CASE t = "A" -> "a"
    [] t = " A" -> "-a"
    [] OTHER -> t

FileNames == {Sanitize(t) : t \in TitleArgs \ {""}}

\* Buffer.byteLength(content, 'utf8') of the one-byte characters used here.
ByteLength(content) == Len(content)

\* The card_type a row gets when the INSERT does not name the column.
DefaultCardType == "saved"

NoCardRow ==
  [exists |-> FALSE, title |-> NoTitle, card_type |-> "none", is_active |-> FALSE,
   file_path |-> NoPath, file_size |-> 0]

\* new Card(row): the constructor copies id, brain_id, title, file_path,
\* file_hash, content_preview, file_size, is_active and the dates; the
\* instance has no cardType property.
CardInstance(row) ==
  [title |-> row.title, filePath |-> row.file_path, fileSize |-> row.file_size,
   isActive |-> row.is_active, cardType |-> "undefined"]

\* SELECT id FROM cards WHERE brain_id = $1 AND title = $2 AND is_active = true
ActiveWithTitle(cs, title) ==
  {c \in CardIds : cs[c].exists /\ cs[c].is_active /\ cs[c].title = title}

\* The persisted state a call works on.
Persisted ==
  [cards |-> cardRows, files |-> bodyFiles, storage |-> storageUsed,
   rows |-> streamCards, made |-> made]

Failed(st, res) == [res |-> res, st |-> st, card |-> 0]

\* Only the SELECT for an active card of the same title is left out.
CardCreateNoTitleCheck(st, title, content, fileSize, fault) ==
  IF title = NoTitle \/ Trim(title) = ""
    THEN Failed(st, "validation")
  ELSE
    LET id == st.made + 1
        cardFilePath == Sanitize(title)
        row == [exists |-> TRUE, title |-> Trim(title), card_type |-> DefaultCardType,
                is_active |-> TRUE,
                file_path |-> IF content # "" THEN cardFilePath ELSE NoPath,
                file_size |-> fileSize]
    IN [res |-> "ok",
        st |-> [st EXCEPT !.cards[id] = row,
                          !.files = IF content # "" THEN [@ EXCEPT ![cardFilePath] = content]
                                    ELSE @,
                          !.storage = @ + fileSize, !.made = id],
        card |-> id]

\* Card.create(brainId, title, {content, fileSize}) (part_007, 486-569).  The
\* queries run in one transaction, which a throw rolls back; the file written
\* by fs.writeFile is not part of it.  fault: the UPDATE that follows the
\* write fails.
CardCreate(st, title, content, fileSize, fault) ==
  IF title = NoTitle \/ Trim(title) = ""
    THEN Failed(st, "validation")
  ELSE IF ActiveWithTitle(st.cards, Trim(title)) # {}
    THEN Failed(st, "conflict")
  ELSE
    LET id == st.made + 1
        written == content # ""
        cardFilePath == Sanitize(title)
        row == [exists |-> TRUE, title |-> Trim(title), card_type |-> DefaultCardType,
                is_active |-> TRUE,
                file_path |-> IF written THEN cardFilePath ELSE NoPath,
                file_size |-> fileSize]
        files == IF written THEN [st.files EXCEPT ![cardFilePath] = content]
                 ELSE st.files
    IN IF written /\ fault
         THEN Failed([st EXCEPT !.files = files], "internal")
       ELSE [res |-> "ok",
             st |-> [st EXCEPT !.cards[id] = row, !.files = files,
                               !.storage = @ + fileSize, !.made = id],
             card |-> id]

\* CardFactory.createSavedCard(brainId, title, content) (part_007, 17-34).
CreateSavedCard(st, title, content, fault) ==
  IF title = NoTitle \/ Trim(title) = "" THEN Failed(st, "validation")
  ELSE IF content = "" THEN Failed(st, "validation")
  ELSE CardCreate(st, title, content, 0, fault)

\* CardFactory.createUnsavedCard(brainId, streamId, content, {position})
\* (part_007, 44-62): Card.create with a null title, then addCardToStream in
\* a transaction of its own.
CreateUnsavedCard(st, content, position, fault) ==
  LET created == CardCreate(st, NoTitle, content, 0, fault)
  IN IF created.res # "ok" THEN created
     ELSE [created EXCEPT
             !.st.rows = FactoryAddCardToStream(@, created.card, position).rows]

\* CardFactory.createEmptyUnsavedCard(brainId, streamId, position, isInsertAfter)
\* (part_007, 72-95).
CreateEmptyUnsavedCard(st, position, isInsertAfter) ==
  LET created == CardCreate(st, NoTitle, "", 0, FALSE)
      at == IF isInsertAfter /\ position # Null THEN position + 1 ELSE position
  IN IF created.res # "ok" THEN created
     ELSE [created EXCEPT
             !.st.rows = AddCardToStreamSafely(@, created.card, at).rows]

\* CardFactory.createFileCard(brainId, fileId, fileName, {content})
\* (part_007, 105-129): options.content, spread last, is the content
\* Card.create gets.
CreateFileCard(st, fileName, content, fault) ==
  IF fileName = NoTitle \/ Trim(fileName) = "" THEN Failed(st, "validation")
  ELSE CardCreate(st, fileName, content, 0, fault)

\* Only the type check differs: any card is converted.
ConvertUnsavedToSavedUnchecked(st, cardId, title) ==
  IF ~st.cards[cardId].exists THEN Failed(st, "notFound")
  ELSE [res |-> "ok",
        st |-> [st EXCEPT !.cards[cardId].title = title,
                          !.cards[cardId].card_type = "saved"],
        card |-> cardId]

\* card.convertToSaved(title): the Card class of part_007 has no such method;
\* this is the conversion as the design describes it (the title assigned
\* after the uniqueness check, the type set to saved, no membership touched).
CardConvertToSaved(st, cardId, title) ==
  IF title = NoTitle \/ Trim(title) = "" THEN Failed(st, "validation")
  ELSE IF ActiveWithTitle(st.cards, Trim(title)) \ {cardId} # {}
    THEN Failed(st, "conflict")
  ELSE [res |-> "ok",
        st |-> [st EXCEPT !.cards[cardId].title = Trim(title),
                          !.cards[cardId].card_type = "saved"],
        card |-> cardId]

\* CardFactory.convertUnsavedToSaved(cardId, title) (part_007, 137-152).
\* Card.findById builds the instance with the Card constructor, which sets
\* no cardType.
ConvertUnsavedToSaved(st, cardId, title) ==
  IF ~st.cards[cardId].exists THEN Failed(st, "notFound")
  ELSE IF CardInstance(st.cards[cardId]).cardType # "unsaved"
    THEN Failed(st, "invalidState")
  ELSE CardConvertToSaved(st, cardId, title)

\* Only the uniqueness check differs: the title is written unchecked.
UpdateCardUnchecked(st, cardId, title) ==
  IF ~st.cards[cardId].exists THEN Failed(st, "notFound")
  ELSE IF title = NoTitle \/ Trim(title) = "" THEN Failed(st, "validation")
  ELSE [res |-> "ok", st |-> [st EXCEPT !.cards[cardId].title = Trim(title)],
        card |-> cardId]

\* Only the written fields differ: card_type passes the allowedFields filter
\* and is set along with the title.
UpdateCardWithType(st, cardId, title) ==
  IF UpdateCardUnchecked(st, cardId, title).res # "ok"
    THEN UpdateCardUnchecked(st, cardId, title)
  ELSE IF /\ Trim(title) # st.cards[cardId].title
          /\ ActiveWithTitle(st.cards, Trim(title)) \ {cardId} # {}
    THEN Failed(st, "conflict")
  ELSE [res |-> "ok",
        st |-> [st EXCEPT !.cards[cardId].title = Trim(title),
                          !.cards[cardId].card_type = "saved"],
        card |-> cardId]

\* PUT /api/cards/:id with a title (part_009, 225-253, 270-273) and
\* Card.update({title}) (part_007, 776-812): the route loads the card, rejects
\* an empty title and trims; update looks for another active card of that
\* title, then writes.
UpdateCard(st, cardId, title) ==
  IF ~st.cards[cardId].exists THEN Failed(st, "notFound")
  ELSE IF title = NoTitle \/ Trim(title) = "" THEN Failed(st, "validation")
  ELSE IF /\ Trim(title) # CardInstance(st.cards[cardId]).title
          /\ ActiveWithTitle(st.cards, Trim(title)) \ {cardId} # {}
    THEN Failed(st, "conflict")
  ELSE [res |-> "ok", st |-> [st EXCEPT !.cards[cardId].title = Trim(title)],
        card |-> cardId]

\* DELETE /api/cards/:id and Card.delete() (part_009, 300-331; part_007,
\* 820-859): the soft delete, with deleteFile left at false.
DeleteCard(st, cardId) ==
  IF ~st.cards[cardId].exists THEN Failed(st, "notFound")
  ELSE [res |-> "ok",
        st |-> [st EXCEPT !.cards[cardId].is_active = FALSE,
                          !.storage = @ - st.cards[cardId].file_size],
        card |-> cardId]

\* DELETE /api/cards/:id?hard=true and Card.hardDelete() (part_007, 865-896).
HardDeleteCard(st, cardId) ==
  LET row == st.cards[cardId]
  IN IF ~row.exists THEN Failed(st, "notFound")
     ELSE [res |-> "ok",
           st |-> [st EXCEPT
                     !.cards[cardId] = NoCardRow,
                     !.storage = @ - row.file_size,
                     !.files = IF row.file_path # NoPath
                                 THEN [@ EXCEPT ![row.file_path] = NoFile] ELSE @],
           card |-> cardId]

\* CardFactory.createFromContentSplit(brainId, chunks) with the default
\* cardType 'saved' (part_007, 184-225), for two titled chunks: one
\* createSavedCard after the other, each in its own transaction.
CreateFromContentSplit(st, chunks) ==
  LET first == CreateSavedCard(st, chunks[1].title, chunks[1].content, FALSE)
      second == CreateSavedCard(first.st, chunks[2].title, chunks[2].content, FALSE)
  IN IF first.res # "ok" THEN first ELSE second

NoLifecycleCall == [op |-> "none", res |-> "none"]

LifecycleInit ==
  /\ cardRows =
       [c \in CardIds |->
          CASE c = 1 -> [exists |-> TRUE, title |-> "A", card_type |-> "saved",
                         is_active |-> TRUE, file_path |-> "a", file_size |-> 1]
            [] c = 2 -> [exists |-> TRUE, title |-> NoTitle, card_type |-> "unsaved",
                         is_active |-> TRUE, file_path |-> NoPath, file_size |-> 0]
            [] c = 3 -> [exists |-> TRUE, title |-> "F", card_type |-> "file",
                         is_active |-> TRUE, file_path |-> NoPath, file_size |-> 0]
            [] OTHER -> NoCardRow]
  /\ bodyFiles = [f \in FileNames |-> IF f = "a" THEN "x" ELSE NoFile]
  /\ storageUsed = 1
  /\ streamCards = {[card |-> 2, position |-> 0, depth |-> 0],
                    [card |-> 1, position |-> 1, depth |-> 0]}
  /\ made = 3
  /\ faults = 0
  /\ calls = 0
  /\ lc = NoLifecycleCall

\* Whether the query after the file write of Card.create fails in this call.
FaultArgs == IF faults < MaxCreateFaults THEN BOOLEAN ELSE {FALSE}

\* The call has run: its result and the state it leaves.
Done(op, r) ==
  /\ calls' = calls + 1
  /\ cardRows' = r.st.cards
  /\ bodyFiles' = r.st.files
  /\ storageUsed' = r.st.storage
  /\ streamCards' = r.st.rows
  /\ made' = r.st.made
  /\ faults' = IF r.res = "internal" THEN faults + 1 ELSE faults
  /\ lc' = [op |-> op, res |-> r.res]
  /\ UNCHANGED notLifecycle

CreateSaved(title, content) ==
  /\ calls < MaxCalls
  /\ made < 3 + MaxNewCards
  /\ \E fault \in FaultArgs :
       Done("createSaved", CreateSavedCard(Persisted, title, content, fault))

CreateUnsaved(content, position) ==
  /\ calls < MaxCalls
  /\ made < 3 + MaxNewCards
  /\ \E fault \in FaultArgs :
       Done("createUnsaved", CreateUnsavedCard(Persisted, content, position, fault))

CreateEmptyUnsaved(position, isInsertAfter) ==
  /\ calls < MaxCalls
  /\ made < 3 + MaxNewCards
  /\ Done("createEmptyUnsaved",
          CreateEmptyUnsavedCard(Persisted, position, isInsertAfter))

CreateFile(fileName, content) ==
  /\ calls < MaxCalls
  /\ made < 3 + MaxNewCards
  /\ \E fault \in FaultArgs :
       Done("createFile", CreateFileCard(Persisted, fileName, content, fault))

ConvertToSaved(cardId, title) ==
  /\ calls < MaxCalls
  /\ Done("convert", ConvertUnsavedToSaved(Persisted, cardId, title))

UpdateTitle(cardId, title) ==
  /\ calls < MaxCalls
  /\ Done("update", UpdateCard(Persisted, cardId, title))

SoftDelete(cardId) ==
  /\ calls < MaxCalls
  /\ Done("delete", DeleteCard(Persisted, cardId))

HardDelete(cardId) ==
  /\ calls < MaxCalls
  /\ Done("hardDelete", HardDeleteCard(Persisted, cardId))

\* StreamCard.removeCardFromStream(streamId, cardId).
RemoveFromStream(cardId) ==
  /\ calls < MaxCalls
  /\ LET removed == RemoveCardFromStream(streamCards, cardId)
     IN Done("removeFromStream",
             [res |-> IF removed.ret THEN "ok" ELSE "false",
              st |-> [Persisted EXCEPT !.rows = removed.rows], card |-> cardId])

ContentSplit(first, second) ==
  /\ calls < MaxCalls
  /\ made + 2 <= 3 + MaxNewCards
  /\ Done("contentSplit",
          CreateFromContentSplit(Persisted,
            <<[title |-> first, content |-> "x"], [title |-> second, content |-> "yy"]>>))

LifecycleNext ==
  \/ \E title \in TitleArgs, content \in ContentArgs : CreateSaved(title, content)
  \/ \E content \in ContentArgs, position \in PositionArgs :
       CreateUnsaved(content, position)
  \/ \E position \in PositionArgs, isInsertAfter \in BOOLEAN :
       CreateEmptyUnsaved(position, isInsertAfter)
  \/ \E fileName \in TitleArgs, content \in ContentArgs : CreateFile(fileName, content)
  \/ \E cardId \in CardIds, title \in TitleArgs : ConvertToSaved(cardId, title)
  \/ \E cardId \in CardIds, title \in TitleArgs : UpdateTitle(cardId, title)
  \/ \E cardId \in CardIds : SoftDelete(cardId)
  \/ \E cardId \in CardIds : HardDelete(cardId)
  \/ \E cardId \in CardIds : RemoveFromStream(cardId)
  \/ \E first \in {"A", "a"}, second \in {"A", "a"} : ContentSplit(first, second)

(***************************************************************************)
(* Properties of the card lifecycle                                         *)
(***************************************************************************)
\* The call of this step left card rows, body files, the storage counter and
\* the membership rows as they were.
SamePersisted ==
  /\ cardRows' = cardRows
  /\ bodyFiles' = bodyFiles
  /\ storageUsed' = storageUsed
  /\ streamCards' = streamCards

\* C22 (as stated): CreateSaved fails with a conflict error whenever an
\* active card with exactly that title exists in the brain, whatever the
\* content, and then creates no card row, writes no body file and leaves the
\* storage counter unchanged.
C22_ConflictWhateverContent ==
  [][\A title \in TitleArgs, content \in ContentArgs :
       (CreateSaved(title, content) /\ ActiveWithTitle(cardRows, title) # {})
         => (lc'.res = "conflict" /\ SamePersisted)]_vars

\* C22 (amended): CreateSaved with the title of an active card of the brain
\* always fails and changes nothing: with a conflict error when content is
\* given, with a validation error when the content is empty.
C22_DuplicateTitleRejected ==
  [][\A title \in TitleArgs, content \in ContentArgs :
       (CreateSaved(title, content) /\ ActiveWithTitle(cardRows, title) # {})
         => /\ lc'.res = IF content = "" THEN "validation" ELSE "conflict"
            /\ SamePersisted]_vars

C22_Witness == lc.op = "createSaved" /\ lc.res = "conflict"

\* C23: after any sequence of CreateSaved, title update, ConvertToSaved,
\* delete and hardDelete calls made one at a time, no two active cards of the
\* brain carry the same title.
C23_ActiveTitlesUnique ==
  \A c, d \in CardIds :
    (/\ c # d
     /\ cardRows[c].exists /\ cardRows[c].is_active
     /\ cardRows[d].exists /\ cardRows[d].is_active
     /\ cardRows[c].title # NoTitle)
      => cardRows[c].title # cardRows[d].title

\* A title update went through after a card was created and one was deleted.
C23_Witness ==
  /\ lc.op = "update" /\ lc.res = "ok"
  /\ made > 3
  /\ \E c \in CardIds : cardRows[c].exists /\ ~cardRows[c].is_active

\* C24: ConvertToSaved on a card whose type is not unsaved (saved or file)
\* fails with an invalid-state error and changes neither title nor type; on
\* an unknown card id it fails and changes nothing.
C24_ConvertRejected ==
  [][\A cardId \in CardIds, title \in TitleArgs :
       ConvertToSaved(cardId, title)
         => /\ (cardRows[cardId].exists /\ cardRows[cardId].card_type # "unsaved")
                 => /\ lc'.res = "invalidState"
                    /\ cardRows'[cardId].title = cardRows[cardId].title
                    /\ cardRows'[cardId].card_type = cardRows[cardId].card_type
            /\ ~cardRows[cardId].exists
                 => (lc'.res = "notFound" /\ SamePersisted)]_vars

\* A conversion of a saved or file card has been refused.
C24_Witness ==
  /\ lc.op = "convert" /\ lc.res = "invalidState"
  /\ \E c \in CardIds : cardRows[c].exists /\ cardRows[c].card_type \in {"saved", "file"}

C26_TypeOneWay ==
  [][\A c \in CardIds :
       (cardRows[c].exists /\ cardRows'[c].exists)
         => \/ cardRows'[c].card_type = cardRows[c].card_type
            \/ (cardRows[c].card_type = "unsaved" /\ cardRows'[c].card_type = "saved")]_vars

\* The file card has been renamed and a card was created, and each card has
\* the type it had.
C26_Witness ==
  /\ lc.op = "update" /\ lc.res = "ok"
  /\ cardRows[3].exists /\ cardRows[3].title # "F" /\ cardRows[3].card_type = "file"
  /\ cardRows[1].exists /\ cardRows[1].card_type = "saved"
  /\ made > 3

\* C27: CreateUnsaved succeeds for every content, the empty string included,
\* creates a card with a null title, and when it returns the card is a member
\* of the stream at the requested position (at the end when none is given).
C27_CreateUnsavedInserts ==
  [][\A content \in ContentArgs, position \in PositionArgs :
       CreateUnsaved(content, position)
         => /\ lc'.res = "ok"
            /\ made' = made + 1
            /\ cardRows'[made'].exists
            /\ cardRows'[made'].title = NoTitle
            /\ \E r \in streamCards' :
                 /\ r.card = made'
                 /\ r.position = IF position = Null
                                   THEN MaxPosition(streamCards, -1) + 1
                                 ELSE position]_vars

C29_StorageCountsContent ==
  [][\A title \in TitleArgs, content \in ContentArgs, position \in PositionArgs :
       (/\ \/ CreateSaved(title, content)
           \/ CreateFile(title, content)
           \/ CreateUnsaved(content, position)
        /\ lc'.res = "ok")
         => storageUsed' = storageUsed + ByteLength(content)]_vars

\* The results with which a call reports an error.
ErrorResults == {"validation", "conflict", "notFound", "invalidState", "internal"}

\* C30: a lifecycle call that returns an error leaves card rows, membership
\* rows, the storage counter and the body files as they were before the call.
C30_ErrorLeavesStateUnchanged ==
  [][(calls' = calls + 1 /\ lc'.res \in ErrorResults) => SamePersisted]_vars

(***************************************************************************)
(* The flags of a membership row: StreamCard.toggleAIContext,               *)
(* toggleCollapsed and updateCardState, each one UPDATE ... RETURNING.      *)
(***************************************************************************)
FlagCards == {"A", "B", "C", "D"}

\* The stream at start: A, B, C at 0, 1, 2 with the flags of a fresh INSERT;
\* D is not a member.
FlagRows0 ==
  {[card |-> r.card, position |-> r.position, depth |-> r.depth,
    is_in_ai_context |-> FALSE, is_collapsed |-> FALSE] : r \in S0}

NoFlagCall == [op |-> "none", card |-> "A", res |-> "none", pre |-> {}]

FlagsInit ==
  /\ flagRows = FlagRows0
  /\ tg = <<NoFlagCall, NoFlagCall>>

\* Only the WHERE clause differs: card_id is left out, every row of the
\* stream is updated.
ToggleAIContextAllRows(rs, c) ==
  IF {r \in rs : r.card = c} = {}
    THEN [rows |-> rs, res |-> "error"]
  ELSE [rows |-> {[r EXCEPT !.is_in_ai_context = ~@] : r \in rs},
        res |-> IF (CHOOSE r \in rs : r.card = c).is_in_ai_context
                  THEN "false" ELSE "true"]

\* StreamCard.toggleAIContext(streamId, cardId) (StreamCard.js, 209-224).
ToggleAIContext(rs, c) ==
  LET updated == {r \in rs : r.card = c}
  IN IF updated = {}
       THEN [rows |-> rs, res |-> "error"]
     ELSE [rows |-> (rs \ updated) \cup {[r EXCEPT !.is_in_ai_context = ~@] : r \in updated},
           res |-> IF (CHOOSE r \in updated : TRUE).is_in_ai_context
                     THEN "false" ELSE "true"]

\* StreamCard.toggleCollapsed(streamId, cardId) (StreamCard.js, 232-247).
ToggleCollapsed(rs, c) ==
  LET updated == {r \in rs : r.card = c}
  IN IF updated = {}
       THEN [rows |-> rs, res |-> "error"]
     ELSE [rows |-> (rs \ updated) \cup {[r EXCEPT !.is_collapsed = ~@] : r \in updated},
           res |-> IF (CHOOSE r \in updated : TRUE).is_collapsed
                     THEN "false" ELSE "true"]

\* StreamCard.updateCardState(streamId, cardId, {depth}) (StreamCard.js,
\* 255-282).
UpdateCardDepth(rs, c, depth) ==
  LET updated == {r \in rs : r.card = c}
  IN IF updated = {}
       THEN [rows |-> rs, res |-> "error"]
     ELSE [rows |-> (rs \ updated) \cup {[r EXCEPT !.depth = depth] : r \in updated},
           res |-> "ok"]

FlagCall(op, c, r) ==
  /\ flagRows' = r.rows
  /\ tg' = <<[op |-> op, card |-> c, res |-> r.res, pre |-> flagRows], tg[1]>>
  /\ UNCHANGED notFlags

ToggleAI(c) == FlagCall("toggleAIContext", c, ToggleAIContext(flagRows, c))

ToggleFold(c) == FlagCall("toggleCollapsed", c, ToggleCollapsed(flagRows, c))

SetDepth(c, depth) ==
  FlagCall("updateCardState", c, UpdateCardDepth(flagRows, c, depth))

FlagsNext ==
  \/ \E c \in FlagCards : ToggleAI(c)
  \/ \E c \in FlagCards : ToggleFold(c)
  \/ \E c \in FlagCards, depth \in 0 .. MaxPos : SetDepth(c, depth)

\* The row of card c in rs.
RowOf(rs, c) == CHOOSE r \in rs : r.card = c

Flag(op, r) ==
  IF op = "toggleAIContext" THEN r.is_in_ai_context ELSE r.is_collapsed

\* C31: a toggle on a member inverts exactly that flag of that row and
\* returns the new value; position, depth, the other flag and every other
\* row stay; two successive toggles of the same flag of the same card restore
\* the rows; on a card that is not a member it fails and changes nothing.
C31_ToggleFlipsOneFlag ==
  LET t == tg[1]
      toggle == t.op \in {"toggleAIContext", "toggleCollapsed"}
      member == \E r \in t.pre : r.card = t.card
  IN /\ (toggle /\ member)
          => LET old == RowOf(t.pre, t.card)
                 new == IF t.op = "toggleAIContext"
                          THEN [old EXCEPT !.is_in_ai_context = ~@]
                        ELSE [old EXCEPT !.is_collapsed = ~@]
             IN /\ flagRows = (t.pre \ {old}) \cup {new}
                /\ t.res = IF Flag(t.op, new) THEN "true" ELSE "false"
     /\ (toggle /\ ~member) => (t.res = "error" /\ flagRows = t.pre)
     /\ (toggle /\ member /\ tg[2].op = t.op /\ tg[2].card = t.card)
          => flagRows = tg[2].pre

\* The same flag of the same member has been toggled twice in a row, after
\* the member got a depth and another flag set.
C31_Witness ==
  /\ tg[1].op = "toggleCollapsed" /\ tg[2].op = "toggleCollapsed"
  /\ tg[1].card = "B" /\ tg[2].card = "B"
  /\ RowOf(flagRows, "B").is_in_ai_context
  /\ RowOf(flagRows, "B").depth = 1

(***************************************************************************)
(* Two requests inside Card.create at the same time.  Each runs in its own  *)
(* transaction; a statement sees the rows committed before it started and   *)
(* the rows of its own transaction, and the cards table carries no unique   *)
(* index on (brain_id, title).                                              *)
(***************************************************************************)
Creators == {1, 2}

RaceTitles == {"A", " A", "B"}

\* One active card, titled B, exists before either request starts.
CardsTable0 == {[id |-> 0, title |-> "B", is_active |-> TRUE]}

NoCreate == [pc |-> "idle", title |-> NoTitle, id |-> 0, seen |-> 0]

RaceInit ==
  /\ cardsTable = CardsTable0
  /\ creators = [t \in Creators |-> NoCreate]
  /\ inserted = 0

\* The rows request t has INSERTed and not yet committed.
OwnRows(t) ==
  IF creators[t].pc \in {"inserted", "counted"}
    THEN {[id |-> creators[t].id, title |-> Trim(creators[t].title), is_active |-> TRUE]}
  ELSE {}

\* SELECT id FROM cards WHERE brain_id = $1 AND title = $2 AND is_active = true
\* as transaction t sees it (part_007, 515-518).
ExistingCard(t, title) ==
  {r \in cardsTable \cup OwnRows(t) : r.title = Trim(title) /\ r.is_active}

\* The INSERT under a unique index on the title: a row of the same title,
\* committed or not, makes it fail.
InsertCardUnique(t) ==
  IF \E u \in Creators : \E r \in cardsTable \cup OwnRows(u) :
       r.title = Trim(creators[t].title) /\ r.is_active
    THEN [creators EXCEPT ![t].pc = "failed"]
  ELSE [creators EXCEPT ![t].pc = "inserted", ![t].id = inserted + 1]

\* INSERT INTO cards (...) VALUES (...) RETURNING * (part_007, 534-538).
InsertCard(t) ==
  [creators EXCEPT ![t].pc = "inserted", ![t].id = inserted + 1]

\* Card.create is entered with a valid title: the transaction begins and the
\* brain is found (part_007, 486-511).
CreateBegin(t, title) ==
  /\ creators[t].pc = "idle"
  /\ creators' = [creators EXCEPT ![t].pc = "begun", ![t].title = title]
  /\ UNCHANGED <<cardsTable, inserted>>
  /\ UNCHANGED notRace

\* The uniqueness SELECT finds nothing (part_007, 515-523).
CreateCheckFree(t) ==
  /\ creators[t].pc = "begun"
  /\ ExistingCard(t, creators[t].title) = {}
  /\ creators' = [creators EXCEPT ![t].pc = "checked", ![t].seen = inserted]
  /\ UNCHANGED <<cardsTable, inserted>>
  /\ UNCHANGED notRace

\* The uniqueness SELECT finds a row: the call throws, the transaction is
\* rolled back (part_007, 520-522).
CreateCheckTaken(t) ==
  /\ creators[t].pc = "begun"
  /\ ExistingCard(t, creators[t].title) # {}
  /\ creators' = [creators EXCEPT ![t].pc = "conflict", ![t].seen = inserted]
  /\ UNCHANGED <<cardsTable, inserted>>
  /\ UNCHANGED notRace

\* The INSERT (part_007, 534-540).
CreateInsert(t) ==
  /\ creators[t].pc = "checked"
  /\ creators' = InsertCard(t)
  /\ inserted' = inserted + 1
  /\ UNCHANGED cardsTable
  /\ UNCHANGED notRace

\* The file is written and UPDATE brains SET storage_used takes the row lock
\* of the brain, which the other transaction may hold until it ends
\* (part_007, 543-559).
CreateCount(t) ==
  /\ creators[t].pc = "inserted"
  /\ \A u \in Creators \ {t} : creators[u].pc # "counted"
  /\ creators' = [creators EXCEPT ![t].pc = "counted"]
  /\ UNCHANGED <<cardsTable, inserted>>
  /\ UNCHANGED notRace

\* The callback returns the card: COMMIT (part_007, 561-563).
CreateCommit(t) ==
  /\ creators[t].pc = "counted"
  /\ cardsTable' = cardsTable \cup OwnRows(t)
  /\ creators' = [creators EXCEPT ![t].pc = "done"]
  /\ UNCHANGED inserted
  /\ UNCHANGED notRace

RaceNext ==
  \/ \E t \in Creators, title \in RaceTitles : CreateBegin(t, title)
  \/ \E t \in Creators : CreateCheckFree(t)
  \/ \E t \in Creators : CreateCheckTaken(t)
  \/ \E t \in Creators : CreateInsert(t)
  \/ \E t \in Creators : CreateCount(t)
  \/ \E t \in Creators : CreateCommit(t)

CreateEnded(t) == creators[t].pc \in {"done", "conflict", "failed"}

\* Both requests ask for the same title, free at the start, and both ran
\* their uniqueness check before either INSERT.
BothCheckedFirst ==
  /\ Trim(creators[1].title) = Trim(creators[2].title)
  /\ \A r \in CardsTable0 : r.title # Trim(creators[1].title)
  /\ \A t \in Creators :
       creators[t].pc \notin {"idle", "begun"} /\ creators[t].seen = 0

\* C32: two concurrent creations with the same title whose checks both run
\* before either insert both succeed, and two active cards carry the title.
C32_BothCreatesSucceed ==
  (BothCheckedFirst /\ \A t \in Creators : CreateEnded(t))
    => /\ \A t \in Creators : creators[t].pc = "done"
       /\ Cardinality({r \in cardsTable :
                         r.is_active /\ r.title = Trim(creators[1].title)}) = 2

\* Both calls have returned after both checks preceded both inserts.
C32_Witness ==
  /\ BothCheckedFirst
  /\ \A t \in Creators : creators[t].pc = "done"
  /\ creators[1].title = "A" /\ creators[2].title = " A"

(***************************************************************************)
(* Properties of the pending list                                          *)
(***************************************************************************)
\* A processNextJob call is in flight, its 100 ms successor is armed, or an
\* addJob is about to call startProcessing.
LoopRunningOrScheduled ==
  \/ \E l \in LoopIds : loops[l].pc # "free"
  \/ nextTimers > 0
  \/ adds # {}

\* C33: whenever the pending list is not empty the loop is running or
\* scheduled to run, so every pending job, a retried one included, is
\* dequeued and executed without a further addJob.
C33_PendingIsServed == pendingJobs # <<>> => LoopRunningOrScheduled

\* C34: a job id occurs at most once in the pending list, and every id in it
\* belongs to a job that is in the map with status pending.
C34_PendingListSound ==
  \A i \in 1 .. Len(pendingJobs) :
    LET j == pendingJobs[i]
    IN /\ CountIn(pendingJobs, j) = 1
       /\ jobs[j].inMap
       /\ jobs[j].status = "pending"

(***************************************************************************)
(* The three insertion routines side by side                               *)
(***************************************************************************)
\* The assignment of positions to cards.
Assignment(rs) == {<<r.card, r.position>> : r \in rs}

\* The positions a request may ask for: omitted, in range, or below it.
RequestedPositions == InsertArgs \cup {-1}

SameAssignment(rs, c, p) ==
  /\ Assignment(AddCardToStream(rs, c, p, 0).rows)
       = Assignment(FactoryAddCardToStream(rs, c, p).rows)
  /\ Assignment(FactoryAddCardToStream(rs, c, p).rows)
       = Assignment(AddCardToStreamSafely(rs, c, p).rows)

\* C35: on every well-formed stream, for every card not in it and every
\* requested position (omitted included), StreamCard.addCardToStream,
\* CardFactory.addCardToStream and CardFactory.addCardToStreamSafely give the
\* same assignment of positions to cards.
C35_RoutinesAgree ==
  WellFormed(rows)
    => \A c \in Cards \ Members(rows), p \in RequestedPositions :
         SameAssignment(rows, c, p)

(***************************************************************************)
(* addJob whose INSERT fails                                               *)
(***************************************************************************)
\* addJob created the job and took it out of the map again: its INSERT failed
\* and the call threw.
SaveFailed(j) == jobs[j].status # "none" /\ ~jobs[j].inMap

\* C36: a job whose INSERT failed is neither in the map nor in the pending
\* list and its handler is never executed, also when the loop was already
\* running while the INSERT was in flight.
C36_FailedEnqueueLeavesNothing ==
  \A j \in JobIds : SaveFailed(j) => (~InPending(j) /\ execs[j] = 0)

(***************************************************************************)
(* One job and its processing_jobs row.  Every INSERT and UPDATE goes to    *)
(* the connection pool when the code issues it, with the values the code    *)
(* passes at that moment; the pool executes the statements it holds on      *)
(* separate connections, in any order; an awaited call goes on when its     *)
(* statement has been executed.                                             *)
(***************************************************************************)
NoMirrorJob == [inMap |-> FALSE, status |-> "none", retryCount |-> 0]
NoMirrorRow == [present |-> FALSE, status |-> "none", retry_count |-> 0]

\* pc: the await processNextJob / addJob is at; tpc: the await of the
\* handleJobError the timeout callback called; timer, next, retries: armed
\* setTimeout callbacks; listed: entries of the job in this.pendingJobs.
MirrorIdle ==
  [pc |-> "none", tpc |-> "none", timer |-> FALSE, next |-> FALSE,
   retries |-> 0, listed |-> 0, isProcessing |-> FALSE, processingJobId |-> FALSE,
   timeouts |-> 0, stops |-> 0]

MirrorInit ==
  /\ mjob = NoMirrorJob
  /\ mrow = NoMirrorRow
  /\ mwrites = {}
  /\ mctl = MirrorIdle

\* this.updateJobInDatabase(jobId, status) up to its pool.query: the UPDATE
\* with the status passed and the job's retryCount of this moment.
IssueUpdate(by, status, retryCount) ==
  mwrites \cup {[by |-> by, op |-> "update", status |-> status, retry |-> retryCount]}

\* Faulty variant of Executed: the UPDATE leaves retry_count alone.
ExecutedStatusOnly(row, w) ==
  IF w.op = "insert"
    THEN [present |-> TRUE, status |-> w.status, retry_count |-> 0]
  ELSE IF row.present
    THEN [row EXCEPT !.status = w.status]
  ELSE row

\* The row after the pool has executed statement w: the INSERT of addJob
\* (retry_count takes its default) or UPDATE ... SET status, retry_count
\* WHERE id = $1.
Executed(row, w) ==
  IF w.op = "insert"
    THEN [present |-> TRUE, status |-> w.status, retry_count |-> 0]
  ELSE IF row.present
    THEN [row EXCEPT !.status = w.status, !.retry_count = w.retry]
  ELSE row

Awaited(by) == \E w \in mwrites : w.by = by

\* processNextJob, lines 194-213, up to the await of its UPDATE.
MirrorProcessNextJob(ctl) ==
  IF ~ctl.isProcessing \/ ctl.listed = 0
    THEN /\ mctl' = [ctl EXCEPT !.isProcessing = FALSE]
         /\ UNCHANGED <<mjob, mwrites>>
  ELSE /\ mctl' = [ctl EXCEPT !.listed = @ - 1, !.processingJobId = TRUE,
                              !.pc = "dbProcessing"]
       /\ mjob' = [mjob EXCEPT !.status = "processing"]
       /\ mwrites' = IssueUpdate("loop", "processing", mjob.retryCount)

\* addJob, lines 60-89.
MirrorAddJob ==
  /\ mctl.pc = "none" /\ ~mjob.inMap
  /\ mjob' = [inMap |-> TRUE, status |-> "pending", retryCount |-> 0]
  /\ mctl' = [mctl EXCEPT !.pc = "insert", !.listed = 1]
  /\ mwrites' = mwrites \cup {[by |-> "addJob", op |-> "insert", status |-> "pending", retry |-> 0]}
  /\ UNCHANGED mrow
  /\ UNCHANGED notMirror

\* The pool executes one of the statements it holds.
MirrorExecute(w) ==
  /\ w \in mwrites
  /\ mrow' = Executed(mrow, w)
  /\ mwrites' = mwrites \ {w}
  /\ UNCHANGED <<mjob, mctl>>
  /\ UNCHANGED notMirror

\* addJob, lines 90-108: the INSERT is done; startProcessing, lines 170-175.
MirrorAddJobSaved ==
  /\ mctl.pc = "insert" /\ ~Awaited("addJob")
  /\ IF mctl.isProcessing
       THEN /\ mctl' = [mctl EXCEPT !.pc = "free"]
            /\ UNCHANGED <<mjob, mwrites>>
     ELSE MirrorProcessNextJob([mctl EXCEPT !.pc = "free", !.isProcessing = TRUE])
  /\ UNCHANGED mrow
  /\ UNCHANGED notMirror

\* processNextJob, lines 213-223: the UPDATE is done, the timeout is armed,
\* the handler starts.
MirrorBeginExecute ==
  /\ mctl.pc = "dbProcessing" /\ ~Awaited("loop")
  /\ mctl' = [mctl EXCEPT !.pc = "executing", !.timer = TRUE]
  /\ UNCHANGED <<mjob, mrow, mwrites>>
  /\ UNCHANGED notMirror

\* processNextJob, lines 223-232: the handler returned.
MirrorHandlerReturns ==
  /\ mctl.pc = "executing"
  /\ mctl' = [mctl EXCEPT !.pc = "dbDone", !.timer = FALSE]
  /\ mjob' = [mjob EXCEPT !.status = "completed"]
  /\ mwrites' = IssueUpdate("loop", "completed", mjob.retryCount)
  /\ UNCHANGED mrow
  /\ UNCHANGED notMirror

\* processNextJob, lines 236-238, and handleJobError, lines 330-337: the
\* handler threw; the error is counted and the log call awaited.
MirrorHandlerThrows ==
  /\ mctl.pc = "executing"
  /\ mctl' = [mctl EXCEPT !.pc = "log", !.timer = FALSE]
  /\ mjob' = [mjob EXCEPT !.retryCount = @ + 1]
  /\ UNCHANGED <<mrow, mwrites>>
  /\ UNCHANGED notMirror

\* handleJobError, lines 340-358, for the caller by: pending and a retry
\* timer, or failed; then the UPDATE.
MirrorRetryOrFail(by, ctl) ==
  IF mjob.retryCount < maxRetries
    THEN /\ mjob' = [mjob EXCEPT !.status = "pending"]
         /\ mctl' = [ctl EXCEPT !.retries = @ + 1]
         /\ mwrites' = IssueUpdate(by, "pending", mjob.retryCount)
  ELSE /\ mjob' = [mjob EXCEPT !.status = "failed"]
       /\ mctl' = ctl
       /\ mwrites' = IssueUpdate(by, "failed", mjob.retryCount)

\* handleJobError called from the catch block, after the log call.
MirrorErrorLogged ==
  /\ mctl.pc = "log"
  /\ MirrorRetryOrFail("loop", [mctl EXCEPT !.pc = "dbDone"])
  /\ UNCHANGED mrow
  /\ UNCHANGED notMirror

\* processNextJob, lines 241-246.
MirrorFinish ==
  /\ mctl.pc = "dbDone" /\ ~Awaited("loop")
  /\ mctl' = [mctl EXCEPT !.pc = "free", !.processingJobId = FALSE, !.next = TRUE]
  /\ UNCHANGED <<mjob, mrow, mwrites>>
  /\ UNCHANGED notMirror

\* The callback of lines 244-246.
MirrorNextTimer ==
  /\ mctl.next
  /\ MirrorProcessNextJob([mctl EXCEPT !.next = FALSE])
  /\ UNCHANGED mrow
  /\ UNCHANGED notMirror

\* The callback of lines 217-219: handleJobTimeout, lines 319-325, and
\* handleJobError up to its log call.
MirrorTimeout ==
  /\ mctl.timer
  /\ mctl.timeouts < MaxTimeouts
  /\ IF mjob.status = "processing"
       THEN /\ mjob' = [mjob EXCEPT !.retryCount = @ + 1]
            /\ mctl' = [mctl EXCEPT !.timer = FALSE, !.timeouts = @ + 1, !.tpc = "log"]
     ELSE /\ mctl' = [mctl EXCEPT !.timer = FALSE, !.timeouts = @ + 1]
          /\ UNCHANGED mjob
  /\ UNCHANGED <<mrow, mwrites>>
  /\ UNCHANGED notMirror

\* handleJobError called from the timeout callback, after the log call.
MirrorTimeoutLogged ==
  /\ mctl.tpc = "log"
  /\ MirrorRetryOrFail("timeout", [mctl EXCEPT !.tpc = "none"])
  /\ UNCHANGED mrow
  /\ UNCHANGED notMirror

\* The callback of lines 345-347.
MirrorRetryTimer ==
  /\ mctl.retries > 0
  /\ mctl' = [mctl EXCEPT !.retries = @ - 1, !.listed = @ + 1]
  /\ UNCHANGED <<mjob, mrow, mwrites>>
  /\ UNCHANGED notMirror

\* stopProcessing, lines 180-189: the UPDATE is not awaited.
MirrorStopProcessing ==
  /\ mctl.stops < MaxStops
  /\ mctl' = [mctl EXCEPT !.isProcessing = FALSE, !.stops = @ + 1]
  /\ IF mctl.processingJobId
       THEN /\ mjob' = [mjob EXCEPT !.status = "cancelled"]
            /\ mwrites' = IssueUpdate("stop", "cancelled", mjob.retryCount)
     ELSE UNCHANGED <<mjob, mwrites>>
  /\ UNCHANGED mrow
  /\ UNCHANGED notMirror

MirrorNext ==
  \/ MirrorAddJob
  \/ \E w \in mwrites : MirrorExecute(w)
  \/ MirrorAddJobSaved
  \/ MirrorBeginExecute
  \/ MirrorHandlerReturns
  \/ MirrorHandlerThrows
  \/ MirrorErrorLogged
  \/ MirrorFinish
  \/ MirrorNextTimer
  \/ MirrorTimeout
  \/ MirrorTimeoutLogged
  \/ MirrorRetryTimer
  \/ MirrorStopProcessing

\* C37: whenever no INSERT or UPDATE of the queue is in flight, the job's row
\* carries the status and the retry count of its in-memory record.
C37_RowMirrorsJob ==
  (mjob.inMap /\ mwrites = {})
    => /\ mrow.present
       /\ mrow.status = mjob.status
       /\ mrow.retry_count = mjob.retryCount

(***************************************************************************)
(* The storage counter of the brain under create, updateContent, delete     *)
(* and hardDelete                                                           *)
(***************************************************************************)
\* card.updateContent(content) on the card findById returns (part_007,
\* 708-769): the new size is recorded, the counter moves by the difference,
\* the file is rewritten when the card has one.
UpdateCardContent(st, cardId, content) ==
  LET row == st.cards[cardId]
      fileSize == ByteLength(content)
      sizeDifference == fileSize - row.file_size
  IN IF ~row.exists THEN Failed(st, "notFound")
     ELSE [res |-> "ok",
           st |-> [st EXCEPT
                     !.cards[cardId].file_size = fileSize,
                     !.storage = @ + sizeDifference,
                     !.files = IF row.file_path # NoPath
                                 THEN [@ EXCEPT ![row.file_path] = content] ELSE @],
           card |-> cardId]

UpdateContent(cardId, content) ==
  /\ calls < MaxCalls
  /\ Done("updateContent", UpdateCardContent(Persisted, cardId, content))

\* Card create, updateContent, delete and hardDelete, one request at a time.
StorageNext ==
  \/ \E title \in TitleArgs, content \in ContentArgs : CreateSaved(title, content)
  \/ \E fileName \in TitleArgs, content \in ContentArgs : CreateFile(fileName, content)
  \/ \E cardId \in CardIds, content \in ContentArgs : UpdateContent(cardId, content)
  \/ \E cardId \in CardIds : SoftDelete(cardId)
  \/ \E cardId \in CardIds : HardDelete(cardId)

\* The sum of file_size over the cards in cs.
RECURSIVE SizeSum(_)
SizeSum(cs) ==
  IF cs = {} THEN 0
  ELSE LET c == CHOOSE x \in cs : TRUE
       IN cardRows[c].file_size + SizeSum(cs \ {c})

ActiveCardIds == {c \in CardIds : cardRows[c].exists /\ cardRows[c].is_active}

\* C38: after any sequence of create, updateContent, delete and hardDelete
\* calls the storage counter is the sum of the recorded sizes of the active
\* cards, and it is never negative.
C38_StorageIsSumOfActive ==
  /\ storageUsed = SizeSum(ActiveCardIds)
  /\ storageUsed >= 0

(***************************************************************************)
(* Specifications                                                          *)
(***************************************************************************)
Init == LedgerInit /\ QueueInit /\ TxInit /\ RepairInit /\ CleanupInit
        /\ LifecycleInit
        /\ FlagsInit
        /\ RaceInit
        /\ MirrorInit

\* The ledger of one stream, called by one request at a time.
SpecLedger == Init /\ [][LedgerNext]_vars

\* The job queue of one server process.
SpecQueue == Init /\ [][QueueNext]_vars

\* Cards appended to a stream and moved, with and without a depth.
SpecMoves == Init /\ [][MovesNext]_vars

\* The ledger with its three insertion routines, one request at a time.
SpecInsertRoutines == Init /\ [][InsertRoutinesNext]_vars

\* The same queue with its liveness: awaited database and log calls complete
\* and armed timers fire.  Nothing makes a handler return or throw, and
\* nothing makes a caller enqueue.
QueueFairness ==
  /\ WF_vars(\E j \in JobIds : AddJobSaved(j))
  /\ WF_vars(\E l \in LoopIds : BeginExecute(l))
  /\ WF_vars(\E l \in LoopIds : ErrorLogged(l))
  /\ WF_vars(\E l \in LoopIds : Finish(l))
  /\ WF_vars(NextTimer)
  /\ WF_vars(\E l \in LoopIds : TimeoutWhenQuiet(l))
  /\ WF_vars(\E j \in JobIds : TimeoutErrorLogged(j))
  /\ WF_vars(\E j \in JobIds : RetryTimerWhenQuiet(j))

SpecQueueFair == Init /\ [][QueueLoopNext]_vars /\ QueueFairness

\* A stream whose positions are overwritten and normalized.
SpecRepair == Init /\ [][RepairNext]_vars

\* Two requests at once on the ledger of one stream.
SpecLedgerTx == Init /\ [][TxNext]_vars

\* The job queue fed by addJob alone, with fast database and log calls.
SpecQueueLoop == Init /\ [][QueueLoopNext]_vars

\* cleanupOldJobs among the status changes of jobs and passing days.
SpecCleanup == Init /\ [][CleanupNext]_vars

\* The card lifecycle calls of one brain, one request at a time.
SpecLifecycle == Init /\ [][LifecycleNext]_vars

\* The flags and depth of the rows of one stream, one call at a time.
SpecFlags == Init /\ [][FlagsNext]_vars

\* Two requests creating cards in one brain, statement by statement.
SpecRace == Init /\ [][RaceNext]_vars

\* One job of the queue and its row, with every await and timer in any order.
SpecMirror == Init /\ [][MirrorNext]_vars

\* The calls that move the storage counter, one request at a time.
SpecStorage == Init /\ [][StorageNext]_vars

====
